---- MODULE Spec2Model ----
(***************************************************************************)
(* Model of the Real-Time Content Matching system of the IPTV Stremio      *)
(* addon: ContentMatcher (normalizeTitle, fuzzyMatch, extractQuality,      *)
(* extractSource, extractYear, findAllMatches, getOfficialTitle) and the   *)
(* M3UEPGAddon request path (searchMovieByImdbId, searchEpisodeByImdbId,   *)
(* ensureSeriesInfo, updateData, the stream handler).                      *)
(*                                                                         *)
(* Titles are TLA+ strings handled character by character.  Scores are     *)
(* exact rationals [n, d] (the code uses IEEE doubles; the inputs below    *)
(* have small denominators, where both agree on every comparison made).    *)
(***************************************************************************)
EXTENDS Integers, Sequences, FiniteSets, TLC

\* ------------------------------------------------------------------------
\* Characters and strings
\* ------------------------------------------------------------------------

Char(s, i) == SubSeq(s, i, i)

UpperChars == "ABCDEFGHIJKLMNOPQRSTUVWXYZ"
LowerChars == "abcdefghijklmnopqrstuvwxyz"
DigitChars == "0123456789"

CharsOf(s) == { Char(s, i) : i \in 1..Len(s) }

UpperCharSet == CharsOf(UpperChars)
DigitCharSet == CharsOf(DigitChars)

\* \w of a JavaScript regular expression: [A-Za-z0-9_]
WordCharSet == UpperCharSet \cup CharsOf(LowerChars) \cup DigitCharSet \cup {"_"}

\* \s of a JavaScript regular expression (the whitespace the inputs use)
SpaceCharSet == {" ", "\t"}

IsWordChar(c) == c \in WordCharSet
IsSpaceChar(c) == c \in SpaceCharSet
IsDigit(c) == c \in DigitCharSet

LowerOfUpper ==
    [c \in UpperCharSet |->
        Char(LowerChars, CHOOSE i \in 1..Len(UpperChars) : Char(UpperChars, i) = c)]

LowerChar(c) == IF c \in UpperCharSet THEN LowerOfUpper[c] ELSE c

RECURSIVE LowerFrom(_, _)
LowerFrom(s, i) ==
    IF i > Len(s) THEN "" ELSE LowerChar(Char(s, i)) \o LowerFrom(s, i + 1)

\* String.prototype.toLowerCase
toLowerCase(s) == LowerFrom(s, 1)

\* String.prototype.includes
includes(s, sub) ==
    \E i \in 1..(Len(s) - Len(sub) + 1) : SubSeq(s, i, i + Len(sub) - 1) = sub

\* .replace(/[^\w\s]/g, ' ')
RECURSIVE ReplaceSpecialFrom(_, _)
ReplaceSpecialFrom(s, i) ==
    IF i > Len(s) THEN ""
    ELSE (IF IsWordChar(Char(s, i)) \/ IsSpaceChar(Char(s, i)) THEN Char(s, i) ELSE " ")
         \o ReplaceSpecialFrom(s, i + 1)

ReplaceSpecialChars(s) == ReplaceSpecialFrom(s, 1)

\* .replace(/\s+/g, ' '): every maximal run of whitespace becomes one space
RECURSIVE CollapseFrom(_, _)
CollapseFrom(s, i) ==
    IF i > Len(s) THEN ""
    ELSE IF IsSpaceChar(Char(s, i))
         THEN IF i < Len(s) /\ IsSpaceChar(Char(s, i + 1))
              THEN CollapseFrom(s, i + 1)
              ELSE " " \o CollapseFrom(s, i + 1)
         ELSE Char(s, i) \o CollapseFrom(s, i + 1)

CollapseWhitespace(s) == CollapseFrom(s, 1)

\* /\b(19|20)\d{2}\b/ applied to one maximal run of word characters
IsYearWord(w) ==
    /\ Len(w) = 4
    /\ SubSeq(w, 1, 2) \in {"19", "20"}
    /\ IsDigit(Char(w, 3))
    /\ IsDigit(Char(w, 4))

QualityWords == {"hdtv", "1080p", "720p", "hd", "4k", "uhd", "bluray", "webrip", "dvdrip"}
LanguageWords == {"dubbed", "hindi", "english", "arabic", "french", "spanish"}
SeriesWords == {"complete", "season", "series", "episode", "ep"}

\* Does the \b( ... )\b pattern of the given kind match the whole word run w?
\* (the /i flag: the alternatives are compared case-insensitively)
WordMatches(kind, w) ==
    CASE kind = "year" -> IsYearWord(w)
      [] kind = "quality" -> toLowerCase(w) \in QualityWords
      [] kind = "language" -> toLowerCase(w) \in LanguageWords
      [] kind = "series" -> toLowerCase(w) \in SeriesWords

\* Last index of the maximal run of word characters that starts at i
RECURSIVE RunEnd(_, _)
RunEnd(s, i) ==
    IF i < Len(s) /\ IsWordChar(Char(s, i + 1)) THEN RunEnd(s, i + 1) ELSE i

\* .replace(/\b(...)\b/g, ''): a match starts and ends at a word boundary and
\* holds word characters only, so it is a maximal run of word characters.
RECURSIVE RemoveWordsFrom(_, _, _)
RemoveWordsFrom(s, i, kind) ==
    IF i > Len(s) THEN ""
    ELSE IF IsWordChar(Char(s, i))
         THEN LET e == RunEnd(s, i)
                  w == SubSeq(s, i, e)
              IN  (IF WordMatches(kind, w) THEN "" ELSE w) \o RemoveWordsFrom(s, e + 1, kind)
         ELSE Char(s, i) \o RemoveWordsFrom(s, i + 1, kind)

RemoveWords(s, kind) == RemoveWordsFrom(s, 1, kind)

\* String.prototype.trim
RECURSIVE TrimLeft(_)
TrimLeft(s) ==
    IF s # "" /\ IsSpaceChar(Head(s)) THEN TrimLeft(SubSeq(s, 2, Len(s))) ELSE s

RECURSIVE TrimRight(_)
TrimRight(s) ==
    IF s # "" /\ IsSpaceChar(Char(s, Len(s))) THEN TrimRight(SubSeq(s, 1, Len(s) - 1)) ELSE s

trim(s) == TrimLeft(TrimRight(s))

\* ------------------------------------------------------------------------
\* ContentMatcher.normalizeTitle
\* ------------------------------------------------------------------------

normalizeTitle(title) ==
    IF title = "" THEN ""
    ELSE trim(
           RemoveWords(
             RemoveWords(
               RemoveWords(
                 RemoveWords(
                   CollapseWhitespace(ReplaceSpecialChars(toLowerCase(title))),
                   "year"),
                 "quality"),
               "language"),
             "series"))

\* ------------------------------------------------------------------------
\* Numbers: exact rationals in lowest terms; d = 0 stands for NaN
\* ------------------------------------------------------------------------

RECURSIVE GCD(_, _)
GCD(a, b) == IF b = 0 THEN a ELSE GCD(b, a % b)

AbsInt(a) == IF a < 0 THEN -a ELSE a

Rat(n, d) ==
    LET g == GCD(AbsInt(n), d)
    IN  [n |-> n \div g, d |-> d \div g]

NaN == [n |-> 0, d |-> 0]
IsNaN(a) == a.d = 0

Zero == Rat(0, 1)
One == Rat(1, 1)

RatAdd(a, b) ==
    IF IsNaN(a) \/ IsNaN(b) THEN NaN ELSE Rat(a.n * b.d + b.n * a.d, a.d * b.d)

RatSub(a, b) ==
    IF IsNaN(a) \/ IsNaN(b) THEN NaN ELSE Rat(a.n * b.d - b.n * a.d, a.d * b.d)

RatAbs(a) == IF IsNaN(a) THEN NaN ELSE [n |-> AbsInt(a.n), d |-> a.d]

\* a > b and a >= b as JavaScript evaluates them: false when either is NaN
RatGt(a, b) == ~IsNaN(a) /\ ~IsNaN(b) /\ a.n * b.d > b.n * a.d
RatGe(a, b) == ~IsNaN(a) /\ ~IsNaN(b) /\ a.n * b.d >= b.n * a.d

\* Math.max(a, b): NaN when either argument is NaN
RatMax(a, b) == IF IsNaN(a) \/ IsNaN(b) THEN NaN ELSE IF RatGe(a, b) THEN a ELSE b

\* ------------------------------------------------------------------------
\* ContentMatcher.fuzzyMatch
\* ------------------------------------------------------------------------

matchingThreshold == Rat(8, 10)

\* Last index of the maximal run of non-whitespace characters that starts at i
RECURSIVE TokenEnd(_, _)
TokenEnd(s, i) ==
    IF i < Len(s) /\ ~IsSpaceChar(Char(s, i + 1)) THEN TokenEnd(s, i + 1) ELSE i

\* norm.split(/\s+/).filter(w => w.length > 2)
RECURSIVE SplitWordsFrom(_, _)
SplitWordsFrom(s, i) ==
    IF i > Len(s) THEN << >>
    ELSE IF IsSpaceChar(Char(s, i)) THEN SplitWordsFrom(s, i + 1)
         ELSE LET e == TokenEnd(s, i)
                  w == SubSeq(s, i, e)
              IN  (IF Len(w) > 2 THEN << w >> ELSE << >>) \o SplitWordsFrom(s, e + 1)

SplitWords(s) == SplitWordsFrom(s, 1)

SeqRange(q) == { q[i] : i \in 1..Len(q) }

\* words1.filter(word => words2.includes(word)).length
CountMatches(words1, words2) ==
    Cardinality({ i \in 1..Len(words1) : words1[i] \in SeqRange(words2) })

MaxInt(a, b) == IF a >= b THEN a ELSE b

MinInt(a, b) == IF a <= b THEN a ELSE b

\* mutant: divides by the shorter token list
SimilarityOfMin(norm1, norm2) ==
    LET words1 == SplitWords(norm1)
        words2 == SplitWords(norm2)
    IN  IF Len(words1) = 0 \/ Len(words2) = 0 THEN Zero
        ELSE Rat(CountMatches(words1, words2), MinInt(Len(words1), Len(words2)))

SimilarityOf(norm1, norm2) ==
    LET words1 == SplitWords(norm1)
        words2 == SplitWords(norm2)
    IN  IF Len(words1) = 0 \/ Len(words2) = 0 THEN Zero
        ELSE Rat(CountMatches(words1, words2), MaxInt(Len(words1), Len(words2)))

fuzzyMatch(title1, title2) ==
    LET norm1 == normalizeTitle(title1)
        norm2 == normalizeTitle(title2)
    IN  IF norm1 = norm2 THEN One ELSE SimilarityOf(norm1, norm2)

\* ------------------------------------------------------------------------
\* ContentMatcher.extractQuality / extractSource / extractYear
\* ------------------------------------------------------------------------

\* mutant: the 720p tier is tested with '720p' alone, without the 'hd' substring
extractQualityNoHd(title) ==
    IF title = "" THEN [quality |-> 0, qualityTag |-> "SD"]
    ELSE LET titleLower == toLowerCase(title)
         IN  IF includes(titleLower, "4k") \/ includes(titleLower, "2160p") \/ includes(titleLower, "uhd")
             THEN [quality |-> 8, qualityTag |-> "4K"]
             ELSE IF includes(titleLower, "1080p") \/ includes(titleLower, "fhd")
             THEN [quality |-> 6, qualityTag |-> "1080p"]
             ELSE IF includes(titleLower, "720p")
             THEN [quality |-> 4, qualityTag |-> "720p"]
             ELSE IF includes(titleLower, "480p") \/ includes(titleLower, "sd")
             THEN [quality |-> 2, qualityTag |-> "480p"]
             ELSE [quality |-> 3, qualityTag |-> "HD"]

extractQuality(title) ==
    IF title = "" THEN [quality |-> 0, qualityTag |-> "SD"]
    ELSE LET titleLower == toLowerCase(title)
         IN  IF includes(titleLower, "4k") \/ includes(titleLower, "2160p") \/ includes(titleLower, "uhd")
             THEN [quality |-> 8, qualityTag |-> "4K"]
             ELSE IF includes(titleLower, "1080p") \/ includes(titleLower, "fhd")
             THEN [quality |-> 6, qualityTag |-> "1080p"]
             ELSE IF includes(titleLower, "720p") \/ includes(titleLower, "hd")
             THEN [quality |-> 4, qualityTag |-> "720p"]
             ELSE IF includes(titleLower, "480p") \/ includes(titleLower, "sd")
             THEN [quality |-> 2, qualityTag |-> "480p"]
             ELSE [quality |-> 3, qualityTag |-> "HD"]

\* mutant: 'remux' is tested before 'bluray'
extractSourceRemuxFirst(title) ==
    IF title = "" THEN [source |-> 0, sourceTag |-> "Unknown"]
    ELSE LET titleLower == toLowerCase(title)
         IN  IF includes(titleLower, "remux")
             THEN [source |-> 9, sourceTag |-> "Remux"]
             ELSE IF includes(titleLower, "bluray") \/ includes(titleLower, "blu-ray")
             THEN [source |-> 10, sourceTag |-> "BluRay"]
             ELSE IF includes(titleLower, "web-dl") \/ includes(titleLower, "webdl")
             THEN [source |-> 8, sourceTag |-> "WEB-DL"]
             ELSE IF includes(titleLower, "webrip")
             THEN [source |-> 6, sourceTag |-> "WEBRip"]
             ELSE IF includes(titleLower, "hdtv")
             THEN [source |-> 4, sourceTag |-> "HDTV"]
             ELSE IF includes(titleLower, "dvdrip")
             THEN [source |-> 3, sourceTag |-> "DVDRip"]
             ELSE [source |-> 5, sourceTag |-> "Digital"]

extractSource(title) ==
    IF title = "" THEN [source |-> 0, sourceTag |-> "Unknown"]
    ELSE LET titleLower == toLowerCase(title)
         IN  IF includes(titleLower, "bluray") \/ includes(titleLower, "blu-ray")
             THEN [source |-> 10, sourceTag |-> "BluRay"]
             ELSE IF includes(titleLower, "remux")
             THEN [source |-> 9, sourceTag |-> "Remux"]
             ELSE IF includes(titleLower, "web-dl") \/ includes(titleLower, "webdl")
             THEN [source |-> 8, sourceTag |-> "WEB-DL"]
             ELSE IF includes(titleLower, "webrip")
             THEN [source |-> 6, sourceTag |-> "WEBRip"]
             ELSE IF includes(titleLower, "hdtv")
             THEN [source |-> 4, sourceTag |-> "HDTV"]
             ELSE IF includes(titleLower, "dvdrip")
             THEN [source |-> 3, sourceTag |-> "DVDRip"]
             ELSE [source |-> 5, sourceTag |-> "Digital"]

\* JavaScript values that reach the year arithmetic: null, a number, NaN, a string
JsNull == [t |-> "null", num |-> 0, str |-> ""]
JsNaN == [t |-> "nan", num |-> 0, str |-> ""]
JsNum(k) == [t |-> "num", num |-> k, str |-> ""]
JsStr(s) == [t |-> "str", num |-> 0, str |-> s]

ValueOfDigit ==
    [c \in DigitCharSet |-> (CHOOSE i \in 1..Len(DigitChars) : Char(DigitChars, i) = c) - 1]

DigitValue(c) == ValueOfDigit[c]

RECURSIVE DigitsToInt(_)
DigitsToInt(s) ==
    IF s = "" THEN 0
    ELSE 10 * DigitsToInt(SubSeq(s, 1, Len(s) - 1)) + DigitValue(Char(s, Len(s)))

\* Last index of the run of decimal digits that starts at i
RECURSIVE DigitsEnd(_, _)
DigitsEnd(s, i) ==
    IF i < Len(s) /\ IsDigit(Char(s, i + 1)) THEN DigitsEnd(s, i + 1) ELSE i

\* parseInt(s): leading whitespace skipped, then the longest run of digits
\* (the strings of the model carry no sign and no radix prefix)
parseInt(s) ==
    LET t == TrimLeft(s)
    IN  IF t = "" \/ ~IsDigit(Head(t)) THEN JsNaN
        ELSE JsNum(DigitsToInt(SubSeq(t, 1, DigitsEnd(t, 1))))

\* First match of /\b(19|20)\d{2}\b/ at or after index i, "" when there is none
RECURSIVE FirstYearFrom(_, _)
FirstYearFrom(s, i) ==
    IF i > Len(s) THEN ""
    ELSE IF IsWordChar(Char(s, i))
         THEN LET e == RunEnd(s, i)
                  w == SubSeq(s, i, e)
              IN  IF IsYearWord(w) THEN w ELSE FirstYearFrom(s, e + 1)
         ELSE FirstYearFrom(s, i + 1)

extractYear(title) ==
    IF title = "" THEN JsNull
    ELSE LET yearMatch == FirstYearFrom(title, 1)
         IN  IF yearMatch = "" THEN JsNull ELSE parseInt(yearMatch)

\* ------------------------------------------------------------------------
\* Array.prototype.sort with a comparator, as the runtime carries it out for
\* arrays shorter than 64 elements: the leading run is found (and reversed
\* when strictly descending), then the rest is inserted by binary search.
\* The keys are [score, qualityScore, sourceScore]; the result is the
\* permutation of the indices.
\* ------------------------------------------------------------------------

Sign(k) == IF k < 0 THEN -1 ELSE IF k > 0 THEN 1 ELSE 0

RatSign(a) == IF IsNaN(a) THEN 0 ELSE Sign(a.n)

toleranceBand == Rat(5, 100)

\* mutant: the scores are compared exactly, without the tolerance band
CompareRankedExact(a, b) ==
    IF a.score # b.score
    THEN RatSign(RatSub(b.score, a.score))
    ELSE IF a.qualityScore # b.qualityScore
         THEN Sign(b.qualityScore - a.qualityScore)
         ELSE Sign(b.sourceScore - a.sourceScore)

\* The comparator of matches.sort and of allEpisodeMatches.sort (its sign)
CompareRanked(a, b) ==
    IF RatGt(RatAbs(RatSub(a.score, b.score)), toleranceBand)
    THEN RatSign(RatSub(b.score, a.score))
    ELSE IF a.qualityScore # b.qualityScore
         THEN Sign(b.qualityScore - a.qualityScore)
         ELSE Sign(b.sourceScore - a.sourceScore)

\* Length of the leading run of perm, of which the first k elements are known
RECURSIVE CountRun(_, _, _, _)
CountRun(keys, perm, k, isDescending) ==
    IF k >= Len(perm) THEN k
    ELSE LET order == CompareRanked(keys[perm[k + 1]], keys[perm[k]])
         IN  IF isDescending
             THEN IF order >= 0 THEN k ELSE CountRun(keys, perm, k + 1, isDescending)
             ELSE IF order < 0 THEN k ELSE CountRun(keys, perm, k + 1, isDescending)

ReverseRange(perm, k) ==
    [i \in 1..Len(perm) |-> IF i <= k THEN perm[k + 1 - i] ELSE perm[i]]

\* Binary search of the insertion point of pivot in perm[left .. right-1]
RECURSIVE InsertionPoint(_, _, _, _, _)
InsertionPoint(keys, perm, pivot, left, right) ==
    IF left >= right THEN left
    ELSE LET mid == left + ((right - left) \div 2)
             order == CompareRanked(keys[pivot], keys[perm[mid]])
         IN  IF order < 0
             THEN InsertionPoint(keys, perm, pivot, left, mid)
             ELSE InsertionPoint(keys, perm, pivot, mid + 1, right)

RECURSIVE BinaryInsertionSort(_, _, _)
BinaryInsertionSort(keys, perm, start) ==
    IF start > Len(perm) THEN perm
    ELSE LET pivot == perm[start]
             left == InsertionPoint(keys, perm, pivot, 1, start)
             moved == [i \in 1..Len(perm) |->
                         IF i < left \/ i > start THEN perm[i]
                         ELSE IF i = left THEN pivot
                         ELSE perm[i - 1]]
         IN  BinaryInsertionSort(keys, moved, start + 1)

SortPermutation(keys) ==
    LET identity == [i \in 1..Len(keys) |-> i]
    IN  IF Len(keys) < 2 THEN identity
        ELSE LET isDescending == CompareRanked(keys[2], keys[1]) < 0
                 run == CountRun(keys, identity, 2, isDescending)
                 made == IF isDescending THEN ReverseRange(identity, run) ELSE identity
             IN  BinaryInsertionSort(keys, made, run + 1)

\* ------------------------------------------------------------------------
\* ContentMatcher.findAllMatches
\* ------------------------------------------------------------------------

\* truthiness of a value (in "targetYear && itemYear")
Truthy(v) ==
    CASE v.t = "null" -> FALSE
      [] v.t = "nan" -> FALSE
      [] v.t = "num" -> v.num # 0
      [] v.t = "str" -> v.str # ""

\* ToNumber, for the subtraction itemYear - targetYear
ToNumber(v) ==
    CASE v.t = "null" -> Zero
      [] v.t = "nan" -> NaN
      [] v.t = "num" -> Rat(v.num, 1)
      [] v.t = "str" ->
           LET t == trim(v.str)
           IN  IF t = "" THEN Zero
               ELSE IF \A i \in 1..Len(t) : IsDigit(Char(t, i)) THEN Rat(DigitsToInt(t), 1)
               ELSE NaN

\* itemYear === targetYear
StrictEquals(a, b) == a.t = "num" /\ b.t = "num" /\ a.num = b.num

RatNegHundredths(a) == IF IsNaN(a) THEN NaN ELSE Rat(-a.n, a.d * 100)

\* mutant: the penalty grows with the year difference without the -0.05 cap
yearBonusUncapped(targetYear, itemYear) ==
    IF Truthy(targetYear) /\ Truthy(itemYear)
    THEN IF StrictEquals(itemYear, targetYear)
         THEN Rat(1, 10)
         ELSE RatNegHundredths(RatAbs(RatSub(ToNumber(itemYear), ToNumber(targetYear))))
    ELSE Zero

yearBonusOf(targetYear, itemYear) ==
    IF Truthy(targetYear) /\ Truthy(itemYear)
    THEN IF StrictEquals(itemYear, targetYear)
         THEN Rat(1, 10)
         ELSE LET yearDiff == RatAbs(RatSub(ToNumber(itemYear), ToNumber(targetYear)))
              IN  RatMax(Rat(-5, 100), RatNegHundredths(yearDiff))
    ELSE Zero

\* item.name || item.title || ''
itemTitleOf(item) == IF item.name # "" THEN item.name ELSE item.title

matchOf(targetTitle, targetYear, item) ==
    LET itemTitle == itemTitleOf(item)
        score == fuzzyMatch(targetTitle, itemTitle)
        qualityInfo == extractQuality(itemTitle)
        sourceInfo == extractSource(itemTitle)
        itemYear == extractYear(itemTitle)
        yearBonus == yearBonusOf(targetYear, itemYear)
    IN  [item |-> item,
         titleScore |-> score,
         yearBonus |-> yearBonus,
         finalScore |-> RatAdd(score, yearBonus),
         qualityScore |-> qualityInfo.quality,
         qualityTag |-> qualityInfo.qualityTag,
         sourceScore |-> sourceInfo.source,
         sourceTag |-> sourceInfo.sourceTag,
         year |-> itemYear,
         title |-> itemTitle]

\* mutant: a score equal to the threshold is rejected
clearsThresholdStrict(score) == RatGt(score, matchingThreshold)

clearsThreshold(score) == RatGe(score, matchingThreshold)

\* mutant: the entries after the first are scored from another library
\* state, in which every entry has another id
collectMatchesTorn(targetTitle, targetYear, contentLibrary) ==
    LET seen == [i \in 1..Len(contentLibrary) |->
                    IF i = 1 THEN contentLibrary[i]
                    ELSE [contentLibrary[i] EXCEPT !.id = @ \o "_later"]]
        scored == [i \in 1..Len(seen) |-> matchOf(targetTitle, targetYear, seen[i])]
    IN  SelectSeq(scored, LAMBDA m : RatGe(m.titleScore, matchingThreshold))

\* First pass: the entries at or above the threshold, in library order
collectMatches(targetTitle, targetYear, contentLibrary) ==
    LET scored == [i \in 1..Len(contentLibrary) |->
                      matchOf(targetTitle, targetYear, contentLibrary[i])]
    IN  SelectSeq(scored, LAMBDA m : clearsThreshold(m.titleScore))

matchKey(m) ==
    [score |-> m.finalScore, qualityScore |-> m.qualityScore, sourceScore |-> m.sourceScore]

sortMatches(matches) ==
    LET perm == SortPermutation([i \in 1..Len(matches) |-> matchKey(matches[i])])
    IN  [i \in 1..Len(matches) |-> matches[perm[i]]]

findAllMatches(targetTitle, targetYear, contentLibrary) ==
    sortMatches(collectMatches(targetTitle, targetYear, contentLibrary))

NoBest == [found |-> FALSE, match |-> [id |-> ""], score |-> Zero]

\* findBestMatch: the first of findAllMatches without a target year, or
\* { match: null, score: 0 }
findBestMatch(targetTitle, contentLibrary) ==
    LET matches == findAllMatches(targetTitle, JsNull, contentLibrary)
    IN  IF Len(matches) > 0
        THEN [found |-> TRUE, match |-> matches[1].item, score |-> matches[1].finalScore]
        ELSE NoBest

\* mutant: the library itself is sorted by the candidates' order
libraryAfterSortInPlace(targetTitle, targetYear, contentLibrary) ==
    LET scored == [i \in 1..Len(contentLibrary) |->
                      matchOf(targetTitle, targetYear, contentLibrary[i])]
        sorted == sortMatches(scored)
    IN  [i \in 1..Len(sorted) |-> sorted[i].item]

\* The content library as findAllMatches and findBestMatch leave it: the loop
\* only reads contentLibrary and its items, push and sort act on the new
\* array matches
libraryAfterMatching(targetTitle, targetYear, contentLibrary) == contentLibrary

\* ------------------------------------------------------------------------
\* State
\* ------------------------------------------------------------------------

VARIABLES
    titleA, titleB, textOut,                     \* arguments and results of the title functions
    rankTarget, rankYear, rankLibrary, rankOut,  \* arguments and result of findAllMatches
    parseTokens, parseId, parseOut,              \* argument and result of parseImdbRequest
    buildPromiseCache, builds, callers,          \* createAddon: the promise cache, the builds, the calls
    infoEntries,       \* M3UEPGAddon.seriesInfoCache as a Map: its entries in insertion order
    hasFetchSeriesInfo, \* the provider module exports fetchSeriesInfo
    metaReq,           \* the buildSeriesMeta calls in progress
    streamOut,         \* argument and result of getStream
    now,               \* Date.now()
    omdbApiKey,        \* ContentMatcher.omdbApiKey is configured
    omdbCache,         \* ContentMatcher.omdbCache
    channels, movies, series, lastUpdate,        \* M3UEPGAddon library and its update time
    seriesInfoCache,   \* M3UEPGAddon.seriesInfoCache
    realTimeCache,     \* M3UEPGAddon.realTimeCache
    req,               \* the stream requests in progress
    lastResolution     \* history: the resolution completed last

textVars == << titleA, titleB, textOut >>
rankVars == << rankTarget, rankYear, rankLibrary, rankOut >>
addonVars == << now, omdbApiKey, omdbCache, channels, movies, series, lastUpdate,
                seriesInfoCache, realTimeCache, req, lastResolution >>
parseVars == << parseTokens, parseId, parseOut >>
buildVars == << buildPromiseCache, builds, callers >>
streamVars == << infoEntries, hasFetchSeriesInfo, metaReq, streamOut >>
vars == << textVars, rankVars, addonVars, parseVars, buildVars, streamVars >>

\* ------------------------------------------------------------------------
\* Inputs of the title functions: words joined by single spaces
\* ------------------------------------------------------------------------

MaxTitleWords == 3

TitleWords == {"Sci-Fi", "the", "go", "2020 HD"}

RECURSIVE JoinWords(_)
JoinWords(ws) ==
    IF Len(ws) = 0 THEN ""
    ELSE IF Len(ws) = 1 THEN ws[1]
    ELSE ws[1] \o " " \o JoinWords(Tail(ws))

Titles ==
    { JoinWords(ws) : ws \in UNION { [1..k -> TitleWords] : k \in 0..MaxTitleWords } }

NoTextOut == [op |-> "none", s1 |-> "", s2 |-> "", r1 |-> Zero, r2 |-> Zero]

InitText ==
    /\ titleA \in Titles
    /\ titleB \in Titles
    /\ textOut = NoTextOut

\* normalizeTitle(titleA), and normalizeTitle applied to its own output
CallNormalizeTitle ==
    /\ textOut.op = "none"
    /\ textOut' = [NoTextOut EXCEPT !.op = "normalizeTitle",
                                    !.s1 = normalizeTitle(titleA),
                                    !.s2 = normalizeTitle(normalizeTitle(titleA))]
    /\ UNCHANGED << titleA, titleB, rankVars, addonVars, parseVars, buildVars, streamVars >>

\* fuzzyMatch(titleA, titleB) and fuzzyMatch(titleB, titleA)
CallFuzzyMatch ==
    /\ textOut.op = "none"
    /\ textOut' = [NoTextOut EXCEPT !.op = "fuzzyMatch",
                                    !.r1 = fuzzyMatch(titleA, titleB),
                                    !.r2 = fuzzyMatch(titleB, titleA)]
    /\ UNCHANGED << titleA, titleB, rankVars, addonVars, parseVars, buildVars, streamVars >>

\* Titles for extractQuality and extractSource: up to MaxTagWords words, each
\* a plain word or one of the tokens the two functions look for
MaxTagWords == 2

TagWords ==
    { "Dune", "4K", "2160p", "UHD", "1080p", "FHD", "720p", "HD", "480p", "SD",
      "BluRay", "Blu-Ray", "REMUX", "WEB-DL", "WEBDL", "WEBRip", "HDTV", "DVDRip" }

TagTitles ==
    { JoinWords(ws) : ws \in UNION { [1..k -> TagWords] : k \in 0..MaxTagWords } }

InitTags ==
    /\ titleA \in TagTitles
    /\ titleB = ""
    /\ textOut = NoTextOut

\* extractQuality(titleA): the tier in r1, the label in s1
CallExtractQuality ==
    /\ textOut.op = "none"
    /\ textOut' = [NoTextOut EXCEPT !.op = "extractQuality",
                                    !.r1 = Rat(extractQuality(titleA).quality, 1),
                                    !.s1 = extractQuality(titleA).qualityTag]
    /\ UNCHANGED << titleA, titleB, rankVars, addonVars, parseVars, buildVars, streamVars >>

\* extractSource(titleA): the tier in r1, the label in s1
CallExtractSource ==
    /\ textOut.op = "none"
    /\ textOut' = [NoTextOut EXCEPT !.op = "extractSource",
                                    !.r1 = Rat(extractSource(titleA).source, 1),
                                    !.s1 = extractSource(titleA).sourceTag]
    /\ UNCHANGED << titleA, titleB, rankVars, addonVars, parseVars, buildVars, streamVars >>

\* ------------------------------------------------------------------------
\* Inputs of findAllMatches
\* ------------------------------------------------------------------------

MaxLibrary == 4

MissionTitle == "Mission: Impossible - The Final Reckoning"

Item(id, name) ==
    [id |-> id, name |-> name, title |-> "", series_id |-> "", url |-> "http://iptv/" \o id]

RankPool ==
    { Item("iptv_vod_1", MissionTitle \o " HD"),
      Item("iptv_vod_2", MissionTitle \o " (2025) 4K BluRay"),
      Item("iptv_vod_3", MissionTitle \o " 2021 1080p"),
      Item("iptv_vod_4", "Mission Impossible Final Reckoning 2025 WEB-DL"),
      Item("iptv_vod_5", "Mission Impossible Fallout 2018"),
      Item("iptv_vod_6", "1917") }

RankYears == { JsNull, JsNum(2025) }

NoRankOut == [called |-> FALSE, op |-> "none", matches |-> << >>, best |-> NoBest]

InitRank ==
    /\ rankTarget = MissionTitle
    /\ rankYear \in RankYears
    /\ rankLibrary \in UNION { [1..k -> RankPool] : k \in 0..MaxLibrary }
    /\ rankOut = NoRankOut

CallFindAllMatches ==
    /\ ~rankOut.called
    /\ rankOut' = [NoRankOut EXCEPT
                      !.called = TRUE, !.op = "findAllMatches",
                      !.matches = findAllMatches(rankTarget, rankYear, rankLibrary)]
    /\ rankLibrary' = libraryAfterMatching(rankTarget, rankYear, rankLibrary)
    /\ UNCHANGED << rankTarget, rankYear, textVars, addonVars, parseVars, buildVars, streamVars >>

\* findBestMatch(rankTarget, rankLibrary)
CallFindBestMatch ==
    /\ ~rankOut.called
    /\ rankOut' = [NoRankOut EXCEPT
                      !.called = TRUE, !.op = "findBestMatch",
                      !.best = findBestMatch(rankTarget, rankLibrary)]
    /\ rankLibrary' = libraryAfterMatching(rankTarget, JsNull, rankLibrary)
    /\ UNCHANGED << rankTarget, rankYear, textVars, addonVars, parseVars, buildVars, streamVars >>

\* Libraries of versions of one title whose final scores lie 0.04, 0.027 and
\* 0.067 apart (1.00, 0.96, 5/6 + 0.10) with the qualities in reverse order,
\* and one far ahead (1.10), in every order
MaxOrderLibrary == 3

OrderPool ==
    { Item("iptv_vod_1", MissionTitle \o " HD"),
      Item("iptv_vod_2", MissionTitle \o " (2025) 4K BluRay"),
      Item("iptv_vod_3", MissionTitle \o " 2021 1080p"),
      Item("iptv_vod_8", "Mission Impossible The Final Reckoning Extended 2025 4K") }

InitOrder ==
    /\ rankTarget = MissionTitle
    /\ rankYear = JsNum(2025)
    /\ rankLibrary \in UNION { [1..k -> OrderPool] : k \in 0..MaxOrderLibrary }
    /\ rankOut = NoRankOut

\* Inputs of findAllMatches and findBestMatch over a range of target years
FirstYear == 2015
YearSpan == 13
MaxYearsLibrary == 2

YearsTargets == { JsNull } \cup { JsNum(y) : y \in FirstYear..(FirstYear + YearSpan) }

InitYears ==
    /\ rankTarget = MissionTitle
    /\ rankYear \in YearsTargets
    /\ rankLibrary \in UNION { [1..k -> RankPool] : k \in 0..MaxYearsLibrary }
    /\ rankOut = NoRankOut

\* ------------------------------------------------------------------------
\* The world around the addon: the metadata service, the provider's catalog.
\* In year strings '-' stands for the en dash of a running series ("2025-").
\* ------------------------------------------------------------------------

NumRequests == 1
MaxTicks == 2
StartTime == 36000000
TickMs == 1800000

RequestIds == {"tt1", "tt3", "tt4", "tt2:1:1", "tt2:1:2"}

\* The service's JSON answer for an id (data.Response, data.Title, data.Year)
OmdbAnswer(imdbId) ==
    CASE imdbId = "tt1" -> [Response |-> "True", Title |-> MissionTitle, Year |-> "2025"]
      [] imdbId = "tt2" -> [Response |-> "True", Title |-> "Alien: Earth", Year |-> "2025-"]
      [] imdbId = "tt4" -> [Response |-> "True", Title |-> "Solaris", Year |-> "1972"]
      [] OTHER -> [Response |-> "False", Title |-> "", Year |-> ""]

SeriesItem(id, seriesId, name) ==
    [id |-> id, name |-> name, title |-> "", series_id |-> seriesId, url |-> ""]

ProviderChannels == << Item("iptv_live_1", "News 24") >>

ProviderMovies ==
    << Item("iptv_vod_1", MissionTitle \o " HD"),
       Item("iptv_vod_2", MissionTitle \o " (2025) 4K BluRay"),
       Item("iptv_vod_5", "Mission Impossible Fallout 2018") >>

\* The provider's movies at a later fetch: one entry gone, one new
ProviderMoviesLater ==
    << Item("iptv_vod_2", MissionTitle \o " (2025) 4K BluRay"),
       Item("iptv_vod_7", MissionTitle \o " 1080p WEB-DL"),
       Item("iptv_vod_5", "Mission Impossible Fallout 2018") >>

ProviderSeries ==
    << SeriesItem("iptv_series_101", "101", "Alien Earth"),
       SeriesItem("iptv_series_102", "", "Alien: Earth (2024) 4K"),
       SeriesItem("iptv_series_103", "103", "Breaking Bad") >>

Video(season, episode, title, url) ==
    [season |-> season, episode |-> episode, title |-> title, url |-> url]

\* A provider with many versions of one title: MaxCapMovies movies titled
\* like "Solaris", and two series of that title with CapEpisodes records of
\* season 1, episode 1 each
MaxCapMovies == 7
CapEpisodes == 6

CapSuffixes ==
    << "", " 4K", " 1080p BluRay", " 720p", " (1972)", " 2002 4K", " HD WEBRip", " UHD" >>

CapSuffix(i) == CapSuffixes[((i - 1) % Len(CapSuffixes)) + 1]

CapDigit(i) == Char(DigitChars, (i % 10) + 1)

CapMovies ==
    [i \in 1..MaxCapMovies |->
        Item("iptv_vod_9" \o CapDigit(i), "Solaris" \o CapSuffix(i))]

CapSeries ==
    << SeriesItem("iptv_series_104", "104", "Solaris"),
       SeriesItem("iptv_series_105", "105", "Solaris 4K") >>

CapSeriesIds == {"104", "105"}

CapVideos(seriesId) ==
    [i \in 1..CapEpisodes |->
        Video(JsNum(1), JsNum(1), "Solaris S01E01" \o CapSuffix(i),
              "http://iptv/" \o seriesId \o "/1/1/" \o CapDigit(i))]

CapIds == {"tt4", "tt4:1:1"}
CapProcs == {1}

\* What the provider's fetchSeriesInfo answers for a series id
ProviderSeriesInfo(seriesId) ==
    CASE seriesId = "101" ->
           << Video(JsStr("1"), JsNum(1), "Alien Earth S01E01 1080p", "http://iptv/101/1/1"),
              Video(JsNum(1), JsNum(2), "Alien Earth S01E02", "http://iptv/101/1/2") >>
      [] seriesId = "102" ->
           << Video(JsNum(1), JsStr("02"), "Alien Earth S01E02 4K WEB-DL", "http://iptv/102/1/2") >>
      [] seriesId \in CapSeriesIds -> CapVideos(seriesId)
      [] OTHER -> << >>

\* ------------------------------------------------------------------------
\* M3UEPGAddon.parseImdbRequest
\* ------------------------------------------------------------------------

\* Last index of the run of characters other than sep that starts at i
\* (i - 1 when the character at i is sep or the string has ended)
RECURSIVE FieldEnd(_, _, _)
FieldEnd(s, i, sep) ==
    IF i > Len(s) \/ Char(s, i) = sep THEN i - 1 ELSE FieldEnd(s, i + 1, sep)

\* String.prototype.split(sep), sep one character
RECURSIVE SplitFrom(_, _, _)
SplitFrom(s, i, sep) ==
    LET e == FieldEnd(s, i, sep)
    IN  IF e >= Len(s) THEN << SubSeq(s, i, e) >>
        ELSE << SubSeq(s, i, e) >> \o SplitFrom(s, e + 2, sep)

split(s, sep) == SplitFrom(s, 1, sep)

\* mutant: an id of three or more tokens is taken for an episode
parseImdbRequestAtLeastThree(id) ==
    LET parts == split(id, ":")
    IN  IF includes(id, ":") /\ Len(parts) >= 3
        THEN [imdbId |-> parts[1], season |-> parseInt(parts[2]),
              episode |-> parseInt(parts[3]), isEpisode |-> TRUE]
        ELSE [imdbId |-> id, season |-> JsNull, episode |-> JsNull, isEpisode |-> FALSE]

parseImdbRequest(id) ==
    LET parts == split(id, ":")
    IN  IF includes(id, ":") /\ Len(parts) = 3
        THEN [imdbId |-> parts[1], season |-> parseInt(parts[2]),
              episode |-> parseInt(parts[3]), isEpisode |-> TRUE]
        ELSE [imdbId |-> id, season |-> JsNull, episode |-> JsNull, isEpisode |-> FALSE]

\* Ids handed to parseImdbRequest: up to MaxTokens tokens joined by ':'
MaxTokens == 4
ParseTokens == { "tt1", "1", "02", "2x", "x", "" }

RECURSIVE JoinTokens(_)
JoinTokens(tokens) ==
    IF Len(tokens) = 1 THEN tokens[1]
    ELSE tokens[1] \o ":" \o JoinTokens(Tail(tokens))

NoParseOut == [called |-> FALSE, result |-> parseImdbRequest("")]

InitParse ==
    /\ parseTokens \in UNION { [1..k -> ParseTokens] : k \in 1..MaxTokens }
    /\ parseId = JoinTokens(parseTokens)
    /\ parseOut = NoParseOut

\* parseImdbRequest(parseId)
CallParseImdbRequest ==
    /\ ~parseOut.called
    /\ parseOut' = [called |-> TRUE, result |-> parseImdbRequest(parseId)]
    /\ UNCHANGED << parseTokens, parseId, textVars, rankVars, addonVars, buildVars, streamVars >>

\* String(n) of a non-negative integer
RECURSIVE IntToString(_)
IntToString(k) ==
    IF k < 10 THEN Char(DigitChars, k + 1)
    ELSE IntToString(k \div 10) \o Char(DigitChars, (k % 10) + 1)

\* a value inside a template literal
templateString(v) ==
    CASE v.t = "null" -> "null"
      [] v.t = "nan" -> "NaN"
      [] v.t = "num" -> IntToString(v.num)
      [] v.t = "str" -> v.str

\* The Result Cache key: imdbId for a movie, `${imdbId}:${season}:${episode}`
cacheKeyOf(parsed) ==
    IF parsed.isEpisode
    THEN parsed.imdbId \o ":" \o templateString(parsed.season) \o ":" \o templateString(parsed.episode)
    ELSE parsed.imdbId

ImdbIds == { parseImdbRequest(id).imdbId : id \in RequestIds }
CacheKeys == { cacheKeyOf(parseImdbRequest(id)) : id \in RequestIds }
SeriesIds == {"101", "102", "103"}

\* ------------------------------------------------------------------------
\* Values held by the caches and by a request
\* ------------------------------------------------------------------------

OmdbNull == [ok |-> FALSE, title |-> "", year |-> ""]
OmdbData(title, year) == [ok |-> TRUE, title |-> title, year |-> year]

NoResult == [kind |-> "none", list |-> << >>]
NullResult == [kind |-> "null", list |-> << >>]
ListResult(l) == [kind |-> "list", list |-> l]

NoOmdbEntry == [has |-> FALSE, value |-> OmdbNull]
NoSeriesInfo == [has |-> FALSE, videos |-> << >>]
NoCacheEntry == [has |-> FALSE, result |-> NoResult, timestamp |-> 0]

Procs == 1..NumRequests

IdleRequest ==
    [pc |-> "idle", id |-> "", key |-> "", imdbId |-> "", isEpisode |-> FALSE,
     season |-> JsNull, episode |-> JsNull,
     omdbData |-> OmdbNull, library |-> << >>,
     allMatches |-> << >>, idx |-> 0, scanned |-> << >>,
     allEpisodeMatches |-> << >>,
     result |-> NoResult, streams |-> << >>,
     servedFromCache |-> FALSE, calledResolver |-> FALSE, calledRefresh |-> FALSE,
     ranked |-> FALSE, cachedAge |-> -1, afterEmpty |-> FALSE, fetches |-> 0,
     overlap |-> FALSE, resolver |-> "none", refresh |-> "none"]

NoResolution == [key |-> "", empty |-> FALSE, at |-> 0]

\* The addon's mutable state as one record, threaded through a handler's steps
Globals ==
    [omdbCache |-> omdbCache, channels |-> channels, movies |-> movies, series |-> series,
     lastUpdate |-> lastUpdate, seriesInfoCache |-> seriesInfoCache,
     realTimeCache |-> realTimeCache]

\* ------------------------------------------------------------------------
\* The steps of a stream request.  A handler runs without interruption from
\* one I/O wait to the next; each operator below takes the addon state g, the
\* request r and the time t, and gives the state and the request at the next
\* wait or at the end.
\* ------------------------------------------------------------------------

CACHE_ENABLED == TRUE
resultCacheTtl == 3600000
updateInterval == 3600000
minorInterval == 900000
movieLimit == 5
episodeLimit == 10

\* mutant: the slice keeps one element more
PrefixOneMore(q, k) == SubSeq(q, 1, IF Len(q) < k + 1 THEN Len(q) ELSE k + 1)

Prefix(q, k) == SubSeq(q, 1, IF Len(q) < k THEN Len(q) ELSE k)

\* The stream handler's answer: one stream per match, [] without matches
streamsOf(r, result) ==
    IF result.kind = "list"
    THEN [i \in 1..Len(result.list) |->
             IF r.isEpisode THEN result.list[i].episode.url ELSE result.list[i].item.url]
    ELSE << >>

Done(g, r, result) ==
    [g |-> g,
     r |-> [r EXCEPT !.pc = "done", !.result = result, !.streams = streamsOf(r, result)]]

\* mutant: an entry whose age equals the TTL still counts as fresh
cacheIsFreshInclusive(timestamp, t) == t - timestamp <= resultCacheTtl

\* Date.now() - cached.timestamp < 3600000
cacheIsFresh(timestamp, t) == t - timestamp < resultCacheTtl

\* mutant: an entry already stored for the key is kept (first writer wins)
cachePutIfAbsent(g, key, result, t) ==
    IF g.realTimeCache[key].has THEN g
    ELSE [g EXCEPT !.realTimeCache[key] = [has |-> TRUE, result |-> result, timestamp |-> t]]

cachePut(g, key, result, t) ==
    [g EXCEPT !.realTimeCache[key] = [has |-> TRUE, result |-> result, timestamp |-> t]]

episodeKey(e) ==
    [score |-> e.seriesScore, qualityScore |-> e.qualityScore, sourceScore |-> e.sourceScore]

sortEpisodes(eps) ==
    LET perm == SortPermutation([i \in 1..Len(eps) |-> episodeKey(eps[i])])
    IN  [i \in 1..Len(eps) |-> eps[perm[i]]]

\* searchEpisodeByImdbId, after the loop over the matching series
finishEpisodes(g, r, t) ==
    IF Len(r.allEpisodeMatches) > 0
    THEN LET topEpisodes == Prefix(sortEpisodes(r.allEpisodeMatches), episodeLimit)
         IN  Done(cachePut(g, r.key, ListResult(topEpisodes), t), r, ListResult(topEpisodes))
    ELSE Done(g, r, NullResult)

\* Number(v) === k for the parsed season or episode k
NumberEquals(v, k) == k.t = "num" /\ ToNumber(v) = Rat(k.num, 1)

\* The episodes of one series that match the request, as candidates
enhancedEpisodes(videos, seriesMatchInfo, season, episode) ==
    LET episodeMatches ==
            SelectSeq(videos, LAMBDA v : NumberEquals(v.season, season)
                                         /\ NumberEquals(v.episode, episode))
    IN  [i \in 1..Len(episodeMatches) |->
            LET ep == episodeMatches[i]
                qualityInfo == extractQuality(ep.title)
                sourceInfo == extractSource(ep.title)
            IN  [episode |-> ep,
                 qualityScore |-> qualityInfo.quality,
                 qualityTag |-> qualityInfo.qualityTag,
                 sourceScore |-> sourceInfo.source,
                 sourceTag |-> sourceInfo.sourceTag,
                 seriesName |-> seriesMatchInfo.item.name,
                 seriesScore |-> seriesMatchInfo.finalScore]]

\* id.replace(/^iptv_series_/, '')
stripSeriesPrefix(id) ==
    IF Len(id) >= 12 /\ SubSeq(id, 1, 12) = "iptv_series_" THEN SubSeq(id, 13, Len(id)) ELSE id

\* seriesMatch.series_id || seriesMatch.id.replace(/^iptv_series_/, '')
seriesIdOf(item) == IF item.series_id # "" THEN item.series_id ELSE stripSeriesPrefix(item.id)

\* mutant: only the best-ranked series is scanned
bestSeriesOnly(allMatches) == Prefix(allMatches, 1)

\* The series matches whose episode lists are scanned: all of them
seriesToScan(allMatches) == allMatches

\* One turn of the loop with the series info in hand
scanOne(r, videos) ==
    [r EXCEPT !.allEpisodeMatches =
                  @ \o enhancedEpisodes(videos, r.allMatches[r.idx], r.season, r.episode),
              !.scanned = Append(@, videos),
              !.idx = @ + 1]

\* The loop over the matching series, up to the next ensureSeriesInfo that
\* has to fetch (ensureSeriesInfo answers from seriesInfoCache when it can)
\* mutant: a stored empty episode list counts as not stored
seriesInfoKnownNonEmpty(g, seriesId) ==
    g.seriesInfoCache[seriesId].has /\ Len(g.seriesInfoCache[seriesId].videos) > 0

\* this.seriesInfoCache.has(seriesId)
seriesInfoKnown(g, seriesId) == g.seriesInfoCache[seriesId].has

RECURSIVE scanSeries(_, _, _)
scanSeries(g, r, t) ==
    IF r.idx > Len(r.allMatches) THEN finishEpisodes(g, r, t)
    ELSE LET seriesId == seriesIdOf(r.allMatches[r.idx].item)
         IN  IF seriesId = "" \/ seriesInfoKnown(g, seriesId)
             THEN scanSeries(g, scanOne(r, IF seriesId = "" THEN << >>
                                           ELSE g.seriesInfoCache[seriesId].videos), t)
             ELSE [g |-> g, r |-> [r EXCEPT !.pc = "awaitSeriesInfo", !.fetches = @ + 1]]

\* searchMovieByImdbId after findAllMatches: the best five, stored
rankedMovies(g, r, matches, t) ==
    LET r1 == [r EXCEPT !.allMatches = matches]
    IN  IF Len(matches) > 0
        THEN Done(cachePut(g, r.key, ListResult(Prefix(matches, movieLimit)), t), r1,
                  ListResult(Prefix(matches, movieLimit)))
        ELSE Done(g, r1, ListResult(<< >>))

\* searchEpisodeByImdbId after findAllMatches: the loop over the series
rankedSeries(g, r, allMatches, t) ==
    IF Len(allMatches) > 0
    THEN scanSeries(g, [r EXCEPT !.allMatches = allMatches, !.idx = 1], t)
    ELSE Done(g, r, NullResult)

ranked(g, r, matches, t) ==
    IF r.isEpisode THEN rankedSeries(g, r, seriesToScan(matches), t)
    ELSE rankedMovies(g, r, matches, t)

\* The year handed to findAllMatches: parseInt(omdbData.year) or null for a
\* movie, omdbData.year as it is for an episode
targetYearOf(r) ==
    IF r.omdbData.year = "" THEN JsNull
    ELSE IF r.isEpisode THEN JsStr(r.omdbData.year) ELSE parseInt(r.omdbData.year)

\* The search from findAllMatches on
rank(g, r, t) ==
    ranked(g, [r EXCEPT !.ranked = TRUE,
                        !.library = IF r.isEpisode THEN g.series ELSE g.movies],
           findAllMatches(r.omdbData.title, targetYearOf(r),
                          IF r.isEpisode THEN g.series ELSE g.movies), t)

\* mutant: only the 900000 ms rule of a loaded library holds a refresh back
skipsUpdateMinorOnly(g, t) ==
    /\ CACHE_ENABLED
    /\ Len(g.channels) # 0 \/ Len(g.movies) # 0 \/ Len(g.series) # 0
    /\ t - g.lastUpdate < minorInterval

\* updateData(false) returns at once: the library was updated recently
skipsUpdate(g, t) ==
    /\ CACHE_ENABLED
    /\ \/ g.lastUpdate # 0 /\ t - g.lastUpdate < updateInterval
       \/ /\ Len(g.channels) # 0 \/ Len(g.movies) # 0 \/ Len(g.series) # 0
          /\ t - g.lastUpdate < minorInterval

\* mutant: updateData(false) is called whatever the partition holds
ensureFreshDataAlways(g, r, t) ==
    LET r1 == [r EXCEPT !.calledRefresh = TRUE]
    IN  IF ~skipsUpdate(g, t)
        THEN [g |-> g, r |-> [r1 EXCEPT !.pc = "awaitFetch"]]
        ELSE rank(g, r1, t)

\* "Ensure fresh IPTV data": updateData(false) when the partition is empty;
\* the request keeps how that call went ("skipped", "fetching", then "ok" or
\* "throw")
ensureFreshData(g, r, t) ==
    LET isEmpty == Len(IF r.isEpisode THEN g.series ELSE g.movies) = 0
        r1 == [r EXCEPT !.calledRefresh = isEmpty,
                        !.refresh = IF ~isEmpty THEN "none"
                                    ELSE IF skipsUpdate(g, t) THEN "skipped"
                                    ELSE "fetching"]
    IN  IF isEmpty /\ ~skipsUpdate(g, t)
        THEN [g |-> g, r |-> [r1 EXCEPT !.pc = "awaitFetch"]]
        ELSE rank(g, r1, t)

\* mutant: a missing title gives null for movies too
noTitleResultNull(isEpisode) == NullResult

\* What the search returns when getOfficialTitle gave nothing: [] or null
noTitleResult(isEpisode) == IF isEpisode THEN NullResult ELSE ListResult(<< >>)

\* The search, once getOfficialTitle has returned omdbData
afterOfficialTitle(g, r, omdbData, t) ==
    LET r1 == [r EXCEPT !.omdbData = omdbData]
    IN  IF ~omdbData.ok THEN Done(g, r1, noTitleResult(r.isEpisode))
        ELSE ensureFreshData(g, r1, t)

\* ContentMatcher.getOfficialTitle up to the network request
\* mutant: a remembered not-found answer is asked for again
getOfficialTitleRetryNull(g, r, t) ==
    LET known == g.omdbCache[r.imdbId].has /\ g.omdbCache[r.imdbId].value.ok
        r1 == [r EXCEPT !.calledResolver = TRUE,
                        !.resolver = IF known THEN "cache"
                                     ELSE IF ~omdbApiKey THEN "nokey" ELSE "network"]
    IN  IF known \/ ~omdbApiKey
        THEN afterOfficialTitle(g, r1, IF known THEN g.omdbCache[r.imdbId].value
                                       ELSE OmdbNull, t)
        ELSE [g |-> g, r |-> [r1 EXCEPT !.pc = "awaitOmdb"]]

getOfficialTitle(g, r, t) ==
    LET r1 == [r EXCEPT !.calledResolver = TRUE,
                        !.resolver = IF g.omdbCache[r.imdbId].has THEN "cache"
                                     ELSE IF ~omdbApiKey THEN "nokey" ELSE "network"]
    IN  IF g.omdbCache[r.imdbId].has \/ ~omdbApiKey
        THEN afterOfficialTitle(g, r1, IF g.omdbCache[r.imdbId].has
                                       THEN g.omdbCache[r.imdbId].value
                                       ELSE OmdbNull, t)
        ELSE [g |-> g, r |-> [r1 EXCEPT !.pc = "awaitOmdb"]]

\* searchMovieByImdbId and searchEpisodeByImdbId from "Check cache first" on;
\* the two differ in the request key and, further on, in r.isEpisode
searchByImdbId(g, r, t) ==
    LET cached == g.realTimeCache[r.key]
    IN  IF cached.has /\ cacheIsFresh(cached.timestamp, t)
        THEN Done(g, [r EXCEPT !.servedFromCache = TRUE], cached.result)
        ELSE getOfficialTitle(g, r, t)


\* ------------------------------------------------------------------------
\* Actions
\* ------------------------------------------------------------------------

IsEmptyResult(result) == result.kind = "null" \/ Len(result.list) = 0

Commit(p, out) ==
    /\ omdbCache' = out.g.omdbCache
    /\ channels' = out.g.channels
    /\ movies' = out.g.movies
    /\ series' = out.g.series
    /\ lastUpdate' = out.g.lastUpdate
    /\ seriesInfoCache' = out.g.seriesInfoCache
    /\ realTimeCache' = out.g.realTimeCache
    /\ req' = [req EXCEPT ![p] = out.r]
    /\ lastResolution' =
          IF out.r.pc = "done"
          THEN [key |-> out.r.key, at |-> now,
                empty |-> out.r.ranked /\ IsEmptyResult(out.r.result)]
          ELSE lastResolution
    /\ UNCHANGED << now, omdbApiKey, textVars, rankVars, parseVars, buildVars, streamVars >>

\* The stream handler is called with an id matching /^tt\d+/
StreamRequest(p, id) ==
    /\ req[p].pc = "idle"
    /\ LET parseResult == parseImdbRequest(id)
           key == cacheKeyOf(parseResult)
           r == [IdleRequest EXCEPT
                    !.id = id, !.key = key, !.imdbId = parseResult.imdbId,
                    !.isEpisode = parseResult.isEpisode,
                    !.season = parseResult.season, !.episode = parseResult.episode,
                    !.cachedAge = IF realTimeCache[key].has
                                  THEN now - realTimeCache[key].timestamp ELSE -1,
                    !.overlap = \E q \in DOMAIN req :
                                    /\ q # p
                                    /\ req[q].key = key
                                    /\ req[q].pc \notin {"idle", "done"},
                    !.afterEmpty = /\ lastResolution.key = key
                                   /\ lastResolution.empty
                                   /\ now - lastResolution.at < resultCacheTtl]
       IN  \E out \in {searchByImdbId(Globals, r, now)} : Commit(p, out)

\* getOfficialTitle after the network request: a JSON answer, or an exception
OmdbResponse(p, outcome) ==
    /\ req[p].pc = "awaitOmdb"
    /\ LET r == [req[p] EXCEPT !.resolver = IF outcome = "answer" THEN "answer"
                                              ELSE "exception"]
           data == OmdbAnswer(r.imdbId)
           result == IF outcome = "answer" /\ data.Response = "True"
                     THEN OmdbData(data.Title, data.Year)
                     ELSE OmdbNull
           g == IF outcome = "answer"
                THEN [Globals EXCEPT !.omdbCache[r.imdbId] = [has |-> TRUE, value |-> result]]
                ELSE Globals
       IN  \E out \in {afterOfficialTitle(g, r, result, now)} : Commit(p, out)

\* updateData after the provider's fetchData: the library replaced, or an exception
FetchDataDone(p, outcome) ==
    /\ req[p].pc = "awaitFetch"
    /\ LET g == IF outcome \in {"ok", "later"}
                THEN [Globals EXCEPT !.channels = ProviderChannels,
                                     !.movies = IF outcome = "ok" THEN ProviderMovies
                                                ELSE ProviderMoviesLater,
                                     !.series = ProviderSeries,
                                     !.lastUpdate = now]
                ELSE Globals
           r == [req[p] EXCEPT !.refresh = IF outcome = "throw" THEN "throw" ELSE "ok"]
       IN  \E out \in {rank(g, r, now)} : Commit(p, out)

\* ensureSeriesInfo after the provider's fetchSeriesInfo: the info stored, or
\* the empty structure stored after an exception
FetchSeriesInfoDone(p, outcome) ==
    /\ req[p].pc = "awaitSeriesInfo"
    /\ LET r == req[p]
           seriesId == seriesIdOf(r.allMatches[r.idx].item)
           videos == IF outcome = "ok" THEN ProviderSeriesInfo(seriesId) ELSE << >>
           g == [Globals EXCEPT !.seriesInfoCache[seriesId] = [has |-> TRUE, videos |-> videos]]
       IN  \E out \in {scanSeries(g, [r EXCEPT !.pc = "scan"], now)} : Commit(p, out)

\* The handler's answer has been sent
Return(p) ==
    /\ req[p].pc = "done"
    /\ req' = [req EXCEPT ![p] = IdleRequest]
    /\ UNCHANGED << now, omdbApiKey, omdbCache, channels, movies, series, lastUpdate,
                    seriesInfoCache, realTimeCache, lastResolution, textVars, rankVars, parseVars, buildVars, streamVars >>

\* Time passes
Tick ==
    /\ now < StartTime + MaxTicks * TickMs
    /\ now' = now + TickMs
    /\ UNCHANGED << omdbApiKey, omdbCache, channels, movies, series, lastUpdate,
                    seriesInfoCache, realTimeCache, req, lastResolution, textVars, rankVars, parseVars, buildVars, streamVars >>

\* The addon after createAddon: the library loaded by updateData(true), or
\* left empty when that first fetch failed
InitAddon ==
    /\ now = StartTime
    /\ omdbApiKey \in BOOLEAN
    /\ omdbCache = [i \in ImdbIds |-> NoOmdbEntry]
    /\ \/ /\ channels = ProviderChannels
          /\ movies = ProviderMovies
          /\ series = ProviderSeries
          /\ lastUpdate = StartTime
       \/ /\ channels = << >>
          /\ movies = << >>
          /\ series = << >>
          /\ lastUpdate = 0
    /\ seriesInfoCache = [i \in SeriesIds |-> NoSeriesInfo]
    /\ realTimeCache = [k \in CacheKeys |-> NoCacheEntry]
    /\ req = [p \in Procs |-> IdleRequest]
    /\ lastResolution = NoResolution

\* The addon after an update that brought no series, or no movies and no
\* series, or after a first update that failed
ThrottleIds == {"tt1", "tt2:1:1"}
ThrottleProcs == {1}

InitThrottle ==
    /\ now = StartTime
    /\ omdbApiKey = TRUE
    /\ omdbCache = [i \in ImdbIds |-> NoOmdbEntry]
    /\ \/ /\ channels = ProviderChannels
          /\ movies \in {ProviderMovies, << >>}
          /\ series = << >>
          /\ lastUpdate = StartTime
       \/ /\ channels = << >>
          /\ movies = << >>
          /\ series = << >>
          /\ lastUpdate = 0
    /\ seriesInfoCache = [i \in SeriesIds |-> NoSeriesInfo]
    /\ realTimeCache = [k \in CacheKeys |-> NoCacheEntry]
    /\ req = [p \in ThrottleProcs |-> IdleRequest]
    /\ lastResolution = NoResolution

IdleAddon ==
    /\ now = StartTime
    /\ omdbApiKey = FALSE
    /\ omdbCache = [i \in ImdbIds |-> NoOmdbEntry]
    /\ channels = << >>
    /\ movies = << >>
    /\ series = << >>
    /\ lastUpdate = 0
    /\ seriesInfoCache = [i \in SeriesIds |-> NoSeriesInfo]
    /\ realTimeCache = [k \in CacheKeys |-> NoCacheEntry]
    /\ req = [p \in Procs |-> IdleRequest]
    /\ lastResolution = NoResolution

\* The addon loaded from the provider with many versions of one title
InitCap ==
    /\ now = StartTime
    /\ omdbApiKey = TRUE
    /\ omdbCache = [i \in { parseImdbRequest(id).imdbId : id \in CapIds } |-> NoOmdbEntry]
    /\ channels = ProviderChannels
    /\ movies \in { SubSeq(CapMovies, 1, n) : n \in 1..MaxCapMovies }
    /\ series \in { SubSeq(CapSeries, 1, n) : n \in 1..Len(CapSeries) }
    /\ lastUpdate = StartTime
    /\ seriesInfoCache = [i \in CapSeriesIds |-> NoSeriesInfo]
    /\ realTimeCache = [k \in { cacheKeyOf(parseImdbRequest(id)) : id \in CapIds } |-> NoCacheEntry]
    /\ req = [p \in CapProcs |-> IdleRequest]
    /\ lastResolution = NoResolution

\* Two stream requests in progress at a time, for movies
PairIds == {"tt1"}
PairProcs == {1, 2}

InitPair ==
    /\ now = StartTime
    /\ omdbApiKey = TRUE
    /\ omdbCache = [i \in { parseImdbRequest(id).imdbId : id \in PairIds } |-> NoOmdbEntry]
    /\ \/ /\ channels = ProviderChannels
          /\ movies = ProviderMovies
          /\ series = ProviderSeries
          /\ lastUpdate = StartTime
       \/ /\ channels = << >>
          /\ movies = << >>
          /\ series = << >>
          /\ lastUpdate = 0
    /\ seriesInfoCache = [i \in SeriesIds |-> NoSeriesInfo]
    /\ realTimeCache = [k \in { cacheKeyOf(parseImdbRequest(id)) : id \in PairIds } |-> NoCacheEntry]
    /\ req = [p \in PairProcs |-> IdleRequest]
    /\ lastResolution = NoResolution

\* ------------------------------------------------------------------------
\* createAddon and the cache of build promises
\* ------------------------------------------------------------------------

NumCallers == 2
Callers == 1..NumCallers

\* A config object; a field that is not given holds "undefined", the
\* booleans are "true" and "false"
Config(m3uUrl, includeSeries, xtreamPassword, instanceId) ==
    [provider |-> "direct", m3uUrl |-> m3uUrl, epgUrl |-> "undefined",
     enableEpg |-> "undefined", xtreamUrl |-> "undefined",
     xtreamUsername |-> "user", xtreamPassword |-> xtreamPassword,
     xtreamUseM3U |-> "undefined", xtreamOutput |-> "undefined",
     epgOffsetHours |-> "undefined", includeSeries |-> includeSeries,
     instanceId |-> instanceId]

BuildConfigs ==
    { Config(m3uUrl, includeSeries, xtreamPassword, "undefined") :
        m3uUrl \in {"http://a/list.m3u", "http://b/list.m3u"},
        includeSeries \in {"undefined", "true", "false"},
        xtreamPassword \in {"p1", "p2"} }

\* !!v for a field holding "undefined", "true" or "false"
ToBoolean(v) == v = "true"

\* mutant: the key also covers the instance id
createCacheKeyWithInstanceId(config) ==
    [provider |-> config.provider, m3uUrl |-> config.m3uUrl, epgUrl |-> config.epgUrl,
     enableEpg |-> ToBoolean(config.enableEpg), xtreamUrl |-> config.xtreamUrl,
     xtreamUsername |-> config.xtreamUsername,
     xtreamUseM3U |-> ToBoolean(config.xtreamUseM3U),
     xtreamOutput |-> config.xtreamOutput, epgOffsetHours |-> config.epgOffsetHours,
     includeSeries |-> config.includeSeries # "false",
     instanceId |-> config.instanceId]

\* createCacheKey: the md5 digest of the stable JSON text of the minimal
\* object, two digests being equal when the minimal objects are
createCacheKey(config) ==
    [provider |-> config.provider, m3uUrl |-> config.m3uUrl, epgUrl |-> config.epgUrl,
     enableEpg |-> ToBoolean(config.enableEpg), xtreamUrl |-> config.xtreamUrl,
     xtreamUsername |-> config.xtreamUsername,
     xtreamUseM3U |-> ToBoolean(config.xtreamUseM3U),
     xtreamOutput |-> config.xtreamOutput, epgOffsetHours |-> config.epgOffsetHours,
     includeSeries |-> config.includeSeries # "false"]

\* config.instanceId || crypto.randomUUID(): a fresh id for each call
withInstanceId(config, c) ==
    IF config.instanceId # "undefined" THEN config
    ELSE [config EXCEPT !.instanceId = "uuid-" \o IntToString(c)]

\* buildPromiseCache.has(cacheKey)
hasBuildPromise(cache, cacheKey) == \E i \in 1..Len(cache) : cache[i].key = cacheKey

\* buildPromiseCache.get(cacheKey)
getBuildPromise(cache, cacheKey) ==
    cache[CHOOSE i \in 1..Len(cache) : cache[i].key = cacheKey].promise

\* buildPromiseCache.set(cacheKey, buildPromise)
setBuildPromise(cache, cacheKey, buildPromise) ==
    IF hasBuildPromise(cache, cacheKey)
    THEN [i \in 1..Len(cache) |->
             IF cache[i].key = cacheKey THEN [cache[i] EXCEPT !.promise = buildPromise]
             ELSE cache[i]]
    ELSE Append(cache, [key |-> cacheKey, promise |-> buildPromise])

IdleCaller == [pc |-> "idle", config |-> Config("", "undefined", "", "undefined"), promise |-> 0, iface |-> 0]

InitBuild ==
    /\ buildPromiseCache = << >>
    /\ builds = << >>
    /\ callers = [c \in Callers |-> IdleCaller]

\* createAddon(config) up to its await: the cached promise is returned, or
\* the build body is started (it runs up to its first await, loadFromCache)
\* and its promise stored
CreateAddon(c, given) ==
    /\ callers[c].pc = "idle"
    /\ LET config == withInstanceId(given, c)
           cacheKey == createCacheKey(config)
       IN  IF CACHE_ENABLED /\ hasBuildPromise(buildPromiseCache, cacheKey)
           THEN /\ callers' = [callers EXCEPT ![c] =
                       [@ EXCEPT !.pc = "awaiting", !.config = config,
                                 !.promise = getBuildPromise(buildPromiseCache, cacheKey)]]
                /\ UNCHANGED << buildPromiseCache, builds >>
           ELSE /\ builds' = Append(builds, [config |-> config, pc |-> "loadFromCache",
                                             iface |-> 0])
                /\ buildPromiseCache' =
                       IF CACHE_ENABLED
                       THEN setBuildPromise(buildPromiseCache, cacheKey, Len(builds) + 1)
                       ELSE buildPromiseCache
                /\ callers' = [callers EXCEPT ![c] =
                       [@ EXCEPT !.pc = "awaiting", !.config = config,
                                 !.promise = Len(builds) + 1]]
    /\ UNCHANGED << textVars, rankVars, addonVars, parseVars, streamVars >>

\* The build body after await addonInstance.loadFromCache()
LoadFromCacheDone(b, outcome) ==
    /\ b \in 1..Len(builds)
    /\ builds[b].pc = "loadFromCache"
    /\ builds' = [builds EXCEPT ![b].pc = IF outcome = "ok" THEN "updateData" ELSE "rejected"]
    /\ UNCHANGED << buildPromiseCache, callers, textVars, rankVars, addonVars, parseVars, streamVars >>

\* The build body after await addonInstance.updateData(true), which catches
\* the provider's errors: the handlers are defined and the interface made
UpdateDataDone(b) ==
    /\ b \in 1..Len(builds)
    /\ builds[b].pc = "updateData"
    /\ builds' = [builds EXCEPT ![b].pc = "fulfilled", ![b].iface = b]
    /\ UNCHANGED << buildPromiseCache, callers, textVars, rankVars, addonVars, parseVars, streamVars >>

\* A createAddon call after its await of the build promise
Settle(c) ==
    /\ callers[c].pc = "awaiting"
    /\ builds[callers[c].promise].pc \in {"fulfilled", "rejected"}
    /\ callers' = [callers EXCEPT ![c] =
           [@ EXCEPT !.pc = IF builds[callers[c].promise].pc = "fulfilled"
                            THEN "resolved" ELSE "rejected",
                     !.iface = builds[callers[c].promise].iface]]
    /\ UNCHANGED << buildPromiseCache, builds, textVars, rankVars, addonVars, parseVars, streamVars >>

\* ------------------------------------------------------------------------
\* M3UEPGAddon.ensureSeriesInfo, buildSeriesMeta and getStream
\* ------------------------------------------------------------------------

\* An episode record of a provider's series info
Episode(id, season, episode, title, url) ==
    [id |-> id, season |-> season, episode |-> episode, title |-> title, url |-> url]

\* The series items whose meta is asked for: two of the library, the second
\* without a series_id of its own
StreamSeries ==
    << SeriesItem("iptv_series_201", "201", "Dark"),
       SeriesItem("iptv_series_202", "", "Dark Matter") >>

\* What the provider's fetchSeriesInfo answers for these series: both have a
\* season 1 episode 1; one record has no url, one has no season
StreamSeriesInfo(seriesId) ==
    CASE seriesId = "201" ->
           << Episode("iptv_series_ep_11", JsNum(1), JsNum(1), "Secrets", "http://iptv/201/1/1"),
              Episode("iptv_series_ep_12", JsStr("1"), JsStr("02"), "Lies", "http://iptv/201/1/2"),
              Episode("iptv_series_ep_13", JsNum(2), JsNum(1), "Beginnings", "") >>
      [] seriesId = "202" ->
           << Episode("iptv_series_ep_21", JsNum(1), JsNum(1), "Pilot", "http://iptv/202/1/1"),
              Episode("iptv_series_ep_22", JsNull, JsNum(3), "Special", "http://iptv/202/0/3") >>
      [] OTHER -> << >>

\* seriesInfoCache is a Map; its entries are kept in insertion order.  An
\* entry carries its key, the info's videos, and (history) whether it is the
\* empty structure stored after a fetch that did not succeed
InfoEntry(seriesId, videos, failed) ==
    [seriesId |-> seriesId, videos |-> videos, failed |-> failed]

\* Map.prototype.has
mapHas(entries, seriesId) == \E i \in DOMAIN entries : entries[i].seriesId = seriesId

\* Map.prototype.get of a key the Map has
mapGet(entries, seriesId) ==
    entries[CHOOSE i \in DOMAIN entries : entries[i].seriesId = seriesId]

\* Map.prototype.set: a key the Map has keeps its place
mapSet(entries, entry) ==
    IF mapHas(entries, entry.seriesId)
    THEN [i \in DOMAIN entries |->
             IF entries[i].seriesId = entry.seriesId THEN entry ELSE entries[i]]
    ELSE Append(entries, entry)

\* the empty structure { videos: [] }
emptyInfo(seriesId) == InfoEntry(seriesId, << >>, TRUE)

\* mutant: nothing is stored when the fetch throws
storeSeriesInfoForget(entries, seriesId, outcome) ==
    IF outcome = "ok"
    THEN mapSet(entries, InfoEntry(seriesId, StreamSeriesInfo(seriesId), FALSE))
    ELSE entries

\* ensureSeriesInfo once the fetch has settled: the info stored, or the empty
\* structure stored after the exception was caught
storeSeriesInfo(entries, seriesId, outcome) ==
    IF outcome = "ok"
    THEN mapSet(entries, InfoEntry(seriesId, StreamSeriesInfo(seriesId), FALSE))
    ELSE mapSet(entries, emptyInfo(seriesId))

\* Number(v) || fallback, for the whole numbers of the model
numberOr(v, fallback) ==
    LET k == ToNumber(v)
    IN  IF IsNaN(k) \/ k = Zero THEN fallback ELSE k.n

\* v && v.id && v.title && v.url
isListedVideo(v) == v.id # "" /\ v.title # "" /\ v.url # ""

\* One video of the meta: its id `${seriesItem.id}:${season}:${episode}`
metaVideoOf(seriesItem, v) ==
    LET season == numberOr(v.season, 1)
        episode == numberOr(v.episode, 0)
    IN  [id |-> seriesItem.id \o ":" \o IntToString(season) \o ":" \o IntToString(episode),
         title |-> v.title, season |-> season, episode |-> episode,
         _originalId |-> v.id, _url |-> v.url]

\* The videos of buildSeriesMeta's answer
metaVideos(seriesItem, videos) ==
    LET listed == SelectSeq(videos, isListedVideo)
    IN  [i \in 1..Len(listed) |-> metaVideoOf(seriesItem, listed[i])]

IsDigits(s) == s # "" /\ \A i \in 1..Len(s) : IsDigit(Char(s, i))

startsWith(s, prefix) == Len(s) >= Len(prefix) /\ SubSeq(s, 1, Len(prefix)) = prefix

\* id.includes(':') && id.match(/^iptv_series_\d+:\d+:\d+$/)
isSeriesEpisodeId(id) ==
    /\ includes(id, ":")
    /\ LET parts == split(id, ":")
       IN  /\ Len(parts) = 3
           /\ startsWith(parts[1], "iptv_series_")
           /\ IsDigits(stripSeriesPrefix(parts[1]))
           /\ IsDigits(parts[2])
           /\ IsDigits(parts[3])

NoStream == [kind |-> "null", url |-> ""]
StreamOf(url) == [kind |-> "stream", url |-> url]

\* Array.prototype.find: the index of the first element satisfying test, or 0
FindFirst(list, test(_)) ==
    LET hits == { i \in 1..Len(list) : test(list[i]) }
    IN  IF hits = {} THEN 0 ELSE CHOOSE i \in hits : \A j \in hits : i <= j

\* Number(v.season) === season && Number(v.episode) === episode
isEpisodeOf(v, season, episode) ==
    ToNumber(v.season) = Rat(season, 1) /\ ToNumber(v.episode) = Rat(episode, 1)

\* lookupEpisodeById: the cached series info in insertion order (the direct
\* provider's inline index is empty for the providers of the model)
RECURSIVE lookupEpisodeFrom(_, _, _)
lookupEpisodeFrom(entries, i, epId) ==
    IF i > Len(entries) THEN NoStream
    ELSE LET k == FindFirst(entries[i].videos, LAMBDA v : v.id = epId)
         IN  IF k # 0 THEN StreamOf(entries[i].videos[k].url)
             ELSE lookupEpisodeFrom(entries, i + 1, epId)

lookupEpisodeById(entries, epId) == lookupEpisodeFrom(entries, 1, epId)

\* The loop over seriesInfoCache.entries(): every cached series in insertion
\* order, the first whose first record of that season and episode has a url
RECURSIVE findEpisode(_, _, _, _, _, _)
findEpisode(entries, i, seriesId, seasonStr, episodeStr, fallback) ==
    IF i > Len(entries) THEN fallback
    ELSE LET k == FindFirst(entries[i].videos,
                           LAMBDA v : isEpisodeOf(v, DigitsToInt(seasonStr), DigitsToInt(episodeStr)))
         IN  IF k # 0 /\ entries[i].videos[k].url # ""
             THEN StreamOf(entries[i].videos[k].url)
             ELSE findEpisode(entries, i + 1, seriesId, seasonStr, episodeStr, fallback)

\* getStream(id)
getStream(entries, all, id) ==
    IF isSeriesEpisodeId(id)
    THEN LET parts == split(id, ":")
         IN  findEpisode(entries, 1, parts[1], parts[2], parts[3],
                         lookupEpisodeById(entries,
                             "iptv_series_ep_" \o parts[2] \o "_" \o parts[3]))
    ELSE IF startsWith(id, "iptv_series_ep_") THEN lookupEpisodeById(entries, id)
    ELSE LET k == FindFirst(all, LAMBDA i : i.id = id)
         IN  IF k = 0 THEN NoStream ELSE StreamOf(all[k].url)

\* The buildSeriesMeta calls that run at the same time; a call keeps how its
\* ensureSeriesInfo was answered ("cached", "nofunction", "ok", "throw")
NumMetaCalls == 2
MetaProcs == 1..NumMetaCalls

StreamSeriesIdx == 1..2

IdleMeta ==
    [pc |-> "idle", item |-> SeriesItem("", "", ""), seriesId |-> "", videos |-> << >>,
     info |-> << >>, fetched |-> FALSE, outcome |-> "none"]

NoStreamOut == [called |-> FALSE, id |-> "", cache |-> << >>, result |-> NoStream]

\* The ids getStream is asked for: the video ids of the metas, an episode of
\* a series that has no meta, a legacy episode id, a movie, an unknown id
StreamIds ==
    { "iptv_series_201:1:1", "iptv_series_201:1:2", "iptv_series_202:1:1",
      "iptv_series_202:1:3", "iptv_series_203:1:1", "iptv_series_202:2:1",
      "iptv_series_ep_22", "iptv_vod_1", "iptv_series_x:1:1" }

IdleStream ==
    /\ infoEntries = << >>
    /\ hasFetchSeriesInfo = FALSE
    /\ metaReq = << >>
    /\ streamOut = NoStreamOut

\* The addon with its library loaded and no series info fetched yet
InitStream ==
    /\ now = StartTime
    /\ omdbApiKey = FALSE
    /\ omdbCache = [i \in ImdbIds |-> NoOmdbEntry]
    /\ channels = ProviderChannels
    /\ movies = ProviderMovies
    /\ series = StreamSeries
    /\ lastUpdate = StartTime
    /\ seriesInfoCache = [i \in SeriesIds |-> NoSeriesInfo]
    /\ realTimeCache = [k \in CacheKeys |-> NoCacheEntry]
    /\ req = [p \in Procs |-> IdleRequest]
    /\ lastResolution = NoResolution
    /\ infoEntries = << >>
    /\ hasFetchSeriesInfo \in BOOLEAN
    /\ metaReq = [p \in MetaProcs |-> IdleMeta]
    /\ streamOut = NoStreamOut

\* buildSeriesMeta once ensureSeriesInfo has answered
metaDone(m, videos) ==
    [m EXCEPT !.pc = "done", !.info = videos, !.videos = metaVideos(m.item, videos)]

\* buildSeriesMeta(seriesItem) up to the await inside ensureSeriesInfo: the
\* cached info, the empty structure of a provider without fetchSeriesInfo, or
\* the fetch started
BuildSeriesMeta(p, k) ==
    /\ metaReq[p].pc \in {"idle", "done"}
    /\ LET seriesItem == series[k]
           seriesId == seriesIdOf(seriesItem)
           m == [IdleMeta EXCEPT !.item = seriesItem, !.seriesId = seriesId]
       IN  IF mapHas(infoEntries, seriesId)
           THEN /\ metaReq' = [metaReq EXCEPT ![p] =
                                  metaDone([m EXCEPT !.outcome = "cached"],
                                           mapGet(infoEntries, seriesId).videos)]
                /\ UNCHANGED infoEntries
           ELSE IF hasFetchSeriesInfo
           THEN /\ metaReq' = [metaReq EXCEPT ![p] =
                                  [m EXCEPT !.pc = "awaitSeriesInfo", !.fetched = TRUE]]
                /\ UNCHANGED infoEntries
           ELSE /\ infoEntries' = mapSet(infoEntries, emptyInfo(seriesId))
                /\ metaReq' = [metaReq EXCEPT ![p] =
                                  metaDone([m EXCEPT !.outcome = "nofunction"], << >>)]
    /\ UNCHANGED << hasFetchSeriesInfo, streamOut, textVars, rankVars, addonVars, parseVars, buildVars >>

\* The provider's fetchSeriesInfo has settled: ensureSeriesInfo stores and
\* returns, buildSeriesMeta goes on
SeriesInfoSettled(p, outcome) ==
    /\ metaReq[p].pc = "awaitSeriesInfo"
    /\ infoEntries' = storeSeriesInfo(infoEntries, metaReq[p].seriesId, outcome)
    /\ metaReq' = [metaReq EXCEPT ![p] =
                      metaDone([@ EXCEPT !.outcome = outcome],
                               IF outcome = "ok" THEN StreamSeriesInfo(@.seriesId) ELSE << >>)]
    /\ UNCHANGED << hasFetchSeriesInfo, streamOut, textVars, rankVars, addonVars, parseVars, buildVars >>

\* getStream(id); the answer is kept with the cache the call saw
GetStream(id) ==
    /\ streamOut' = [called |-> TRUE, id |-> id, cache |-> infoEntries,
                     result |-> getStream(infoEntries, channels \o movies, id)]
    /\ UNCHANGED << infoEntries, hasFetchSeriesInfo, metaReq, textVars, rankVars, addonVars, parseVars, buildVars >>

\* ------------------------------------------------------------------------
\* Specifications
\* ------------------------------------------------------------------------

IdleText ==
    /\ titleA = ""
    /\ titleB = ""
    /\ textOut = NoTextOut

IdleRank ==
    /\ rankTarget = ""
    /\ rankYear = JsNull
    /\ rankLibrary = << >>
    /\ rankOut = NoRankOut

IdleParse ==
    /\ parseTokens = << >>
    /\ parseId = ""
    /\ parseOut = NoParseOut

IdleBuild ==
    /\ buildPromiseCache = << >>
    /\ builds = << >>
    /\ callers = << >>

Init == InitAddon /\ IdleText /\ IdleRank /\ IdleParse /\ IdleBuild /\ IdleStream

InitTextOnly == InitText /\ IdleRank /\ IdleAddon /\ IdleParse /\ IdleBuild /\ IdleStream

InitRankOnly == InitRank /\ IdleText /\ IdleAddon /\ IdleParse /\ IdleBuild /\ IdleStream

Next ==
    \/ \E p \in Procs, id \in RequestIds : StreamRequest(p, id)
    \/ \E p \in Procs, outcome \in {"answer", "error"} : OmdbResponse(p, outcome)
    \/ \E p \in Procs, outcome \in {"ok", "throw"} : FetchDataDone(p, outcome)
    \/ \E p \in Procs, outcome \in {"ok", "throw"} : FetchSeriesInfoDone(p, outcome)
    \/ \E p \in Procs : Return(p)
    \/ Tick

\* The addon serving stream requests
Spec == Init /\ [][Next]_vars

NextText ==
    \/ CallNormalizeTitle
    \/ CallFuzzyMatch

\* normalizeTitle and fuzzyMatch applied to every pair of titles
SpecText == InitTextOnly /\ [][NextText]_vars

NextRank == CallFindAllMatches

InitYearsOnly == InitYears /\ IdleText /\ IdleAddon /\ IdleParse /\ IdleBuild /\ IdleStream

NextYears ==
    \/ CallFindAllMatches
    \/ CallFindBestMatch

\* findAllMatches and findBestMatch applied to short libraries over a range
\* of target years
SpecYears == InitYearsOnly /\ [][NextYears]_vars

InitCapOnly == InitCap /\ IdleText /\ IdleRank /\ IdleParse /\ IdleBuild /\ IdleStream

NextCap ==
    \/ \E p \in CapProcs, id \in CapIds : StreamRequest(p, id)
    \/ \E p \in CapProcs, outcome \in {"answer", "error"} : OmdbResponse(p, outcome)
    \/ \E p \in CapProcs, outcome \in {"ok", "throw"} : FetchSeriesInfoDone(p, outcome)
    \/ \E p \in CapProcs : Return(p)

\* The stream handler over a library with more versions of a title than the
\* searches return
SpecCap == InitCapOnly /\ [][NextCap]_vars

InitPairOnly == InitPair /\ IdleText /\ IdleRank /\ IdleParse /\ IdleBuild /\ IdleStream

NextPair ==
    \/ \E p \in PairProcs, id \in PairIds : StreamRequest(p, id)
    \/ \E p \in PairProcs, outcome \in {"answer", "error"} : OmdbResponse(p, outcome)
    \/ \E p \in PairProcs, outcome \in {"ok", "later", "throw"} : FetchDataDone(p, outcome)
    \/ \E p \in PairProcs : Return(p)
    \/ Tick

\* Two invocations of the stream handler interleaved at their awaits, with
\* library refreshes between them
SpecPair == InitPairOnly /\ [][NextPair]_vars

InitBuildOnly == InitBuild /\ IdleText /\ IdleRank /\ IdleParse /\ IdleAddon /\ IdleStream

NextBuild ==
    \/ \E c \in Callers, given \in BuildConfigs : CreateAddon(c, given)
    \/ \E b \in Callers, outcome \in {"ok", "throw"} : LoadFromCacheDone(b, outcome)
    \/ \E b \in Callers : UpdateDataDone(b)
    \/ \E c \in Callers : Settle(c)

\* createAddon called by several callers
SpecBuild == InitBuildOnly /\ [][NextBuild]_vars

InitStreamOnly == InitStream /\ IdleText /\ IdleRank /\ IdleParse /\ IdleBuild

NextStream ==
    \/ \E p \in MetaProcs, k \in StreamSeriesIdx : BuildSeriesMeta(p, k)
    \/ \E p \in MetaProcs, outcome \in {"ok", "throw"} : SeriesInfoSettled(p, outcome)
    \/ \E id \in StreamIds : GetStream(id)

\* Meta requests and stream lookups over the series info cache
SpecStream == InitStreamOnly /\ [][NextStream]_vars

InitThrottleOnly == InitThrottle /\ IdleText /\ IdleRank /\ IdleParse /\ IdleBuild /\ IdleStream

NextThrottle ==
    \/ \E p \in ThrottleProcs, id \in ThrottleIds : StreamRequest(p, id)
    \/ \E p \in ThrottleProcs, outcome \in {"answer", "error"} : OmdbResponse(p, outcome)
    \/ \E p \in ThrottleProcs, outcome \in {"ok", "throw"} : FetchDataDone(p, outcome)
    \/ \E p \in ThrottleProcs, outcome \in {"ok", "throw"} : FetchSeriesInfoDone(p, outcome)
    \/ \E p \in ThrottleProcs : Return(p)
    \/ Tick

\* The addon serving stream requests after an update that left a partition empty
SpecThrottle == InitThrottleOnly /\ [][NextThrottle]_vars

InitOrderOnly == InitOrder /\ IdleText /\ IdleAddon /\ IdleParse /\ IdleBuild /\ IdleStream

NextOrder ==
    \/ CallFindAllMatches
    \/ CallFindBestMatch

\* findAllMatches and findBestMatch over libraries in every order
SpecOrder == InitOrderOnly /\ [][NextOrder]_vars

InitTagsOnly == InitTags /\ IdleRank /\ IdleAddon /\ IdleParse /\ IdleBuild /\ IdleStream

NextTags ==
    \/ CallExtractQuality
    \/ CallExtractSource

\* extractQuality and extractSource over titles of tokens
SpecTags == InitTagsOnly /\ [][NextTags]_vars

InitParseOnly == InitParse /\ IdleText /\ IdleRank /\ IdleAddon /\ IdleBuild /\ IdleStream

NextParse == CallParseImdbRequest

\* parseImdbRequest applied to ids of up to MaxTokens tokens
SpecParse == InitParseOnly /\ [][NextParse]_vars

\* findAllMatches applied to every library
SpecRank == InitRankOnly /\ [][NextRank]_vars

\* ------------------------------------------------------------------------
\* Properties of the title functions (SpecText)
\* ------------------------------------------------------------------------

\* C8: fuzzyMatch is symmetric: fuzzyMatch(a, b) = fuzzyMatch(b, a) for all
\* titles a and b, repeated tokens and unequal token counts included.
C8_FuzzyMatchSymmetric ==
    textOut.op = "fuzzyMatch" => textOut.r1 = textOut.r2

\* C9: normalizeTitle is idempotent: normalizing the output of normalizeTitle
\* gives that output back, also when a removable token sits between two words.
C9_NormalizeIdempotent ==
    textOut.op = "normalizeTitle" => textOut.s2 = textOut.s1

AtLeastThreshold(score) == score.d > 0 /\ 10 * score.n >= 8 * score.d

\* C3: every candidate returned by findAllMatches has titleScore >= 0.8, every
\* library entry whose fuzzyMatch score against the target is >= 0.8 appears
\* in the result, and a library with no such entry (the empty library
\* included) yields the empty list.
C3_ThresholdFilter ==
    rankOut.called =>
        LET matches == rankOut.matches
            scoreOf(j) == fuzzyMatch(rankTarget, itemTitleOf(rankLibrary[j]))
            reaching == { j \in 1..Len(rankLibrary) : AtLeastThreshold(scoreOf(j)) }
        IN  /\ \A i \in 1..Len(matches) : AtLeastThreshold(matches[i].titleScore)
            /\ \A j \in reaching : \E i \in 1..Len(matches) : matches[i].item = rankLibrary[j]
            /\ Len(matches) = Cardinality(reaching)
            /\ reaching = {} => matches = << >>

\* a ranking that kept an entry scoring exactly 0.8 and dropped another entry
C3_Witness ==
    /\ rankOut.called
    /\ \E i \in 1..Len(rankOut.matches) : rankOut.matches[i].titleScore = Rat(8, 10)
    /\ Len(rankOut.matches) < Len(rankLibrary)

DifferByMoreThanBand(a, b) ==
    LET num == a.n * b.d - b.n * a.d
    IN  100 * (IF num < 0 THEN -num ELSE num) > 5 * a.d * b.d

NotBelow(a, b) == a.n * b.d >= b.n * a.d

\* C4: in the list returned by findAllMatches, every adjacent pair (i, i+1)
\* either has finalScores more than 0.05 apart with finalScore[i] >=
\* finalScore[i+1], or has finalScores at most 0.05 apart with
\* qualityScore[i] >= qualityScore[i+1] and, the quality scores being equal,
\* sourceScore[i] >= sourceScore[i+1].
C4_AdjacentOrder ==
    rankOut.called =>
        \A i \in 1..(Len(rankOut.matches) - 1) :
            LET a == rankOut.matches[i]
                b == rankOut.matches[i + 1]
            IN  /\ a.finalScore.d > 0
                /\ b.finalScore.d > 0
                /\ IF DifferByMoreThanBand(a.finalScore, b.finalScore)
                   THEN NotBelow(a.finalScore, b.finalScore)
                   ELSE /\ a.qualityScore >= b.qualityScore
                        /\ a.qualityScore = b.qualityScore => a.sourceScore >= b.sourceScore

\* a ranking where the lower final score comes first inside the band (quality
\* decides) and where another adjacent pair is more than the band apart
C4_Witness ==
    /\ rankOut.called
    /\ \E i \in 1..(Len(rankOut.matches) - 1) :
          /\ ~DifferByMoreThanBand(rankOut.matches[i].finalScore, rankOut.matches[i + 1].finalScore)
          /\ ~NotBelow(rankOut.matches[i].finalScore, rankOut.matches[i + 1].finalScore)
          /\ rankOut.matches[i].qualityScore > rankOut.matches[i + 1].qualityScore
    /\ \E i \in 1..(Len(rankOut.matches) - 1) :
          DifferByMoreThanBand(rankOut.matches[i].finalScore, rankOut.matches[i + 1].finalScore)

MissionScenario ==
    /\ rankOut.called
    /\ rankTarget = MissionTitle
    /\ rankYear = JsNum(2025)
    /\ rankLibrary = << Item("iptv_vod_1", MissionTitle \o " HD") >>

HasNoHigherQualityToken(title) ==
    LET t == toLowerCase(title)
    IN  \A tok \in {"4k", "2160p", "uhd", "1080p", "fhd"} : ~includes(t, tok)

\* C5 as stated: the Mission: Impossible scenario yields one candidate with
\* titleScore 1.0 and qualityTag "HD" (the default tier, quality 3), first.
C5_Original ==
    MissionScenario =>
        /\ Len(rankOut.matches) = 1
        /\ rankOut.matches[1].titleScore = One
        /\ rankOut.matches[1].qualityTag = "HD"
        /\ rankOut.matches[1].qualityScore = 3

\* C5 amended: the Mission: Impossible scenario yields exactly one candidate,
\* first, with titleScore exactly 1.0 and qualityTag "720p" (quality 4); in
\* general a candidate whose title carries an 'hd' marker and no
\* 4k/2160p/uhd/1080p/fhd token is given the 720p tier (quality 4), and the
\* default tier "HD" (quality 3) only goes to titles without any 'hd'.
C5_Amended ==
    /\ MissionScenario =>
          /\ Len(rankOut.matches) = 1
          /\ rankOut.matches[1].item = rankLibrary[1]
          /\ rankOut.matches[1].titleScore = One
          /\ rankOut.matches[1].qualityTag = "720p"
          /\ rankOut.matches[1].qualityScore = 4
    /\ rankOut.called =>
          \A i \in 1..Len(rankOut.matches) :
              LET m == rankOut.matches[i]
              IN  /\ (includes(toLowerCase(m.title), "hd") /\ HasNoHigherQualityToken(m.title))
                        => (m.qualityTag = "720p" /\ m.qualityScore = 4)
                  /\ m.qualityTag = "HD" => ~includes(toLowerCase(m.title), "hd")

\* the scenario has been ranked and returned its single candidate
C5_Witness ==
    /\ MissionScenario
    /\ Len(rankOut.matches) = 1

\* ------------------------------------------------------------------------
\* Properties of the addon serving stream requests (Spec)
\* ------------------------------------------------------------------------

\* C1: negative cache: when a resolution of a request key found no match (the
\* title was resolved and the ranking pass over the library came back empty),
\* a second resolution of the same key less than 3,600,000 ms later is served
\* from the result cache and invokes neither getOfficialTitle nor updateData
\* nor a ranking pass.
C1_NegativeCache ==
    \A p \in Procs :
        (req[p].pc = "done" /\ req[p].afterEmpty) =>
            /\ req[p].servedFromCache
            /\ ~req[p].calledResolver
            /\ ~req[p].calledRefresh
            /\ ~req[p].ranked

\* C2: result cache expiry: a search returns the stored payload, calling
\* neither the resolver nor the refresh nor the ranker, exactly when the key
\* has an entry of age (now - timestamp) below 3,600,000 ms; an entry of age
\* 3,600,000 ms or more is not returned and the search goes on as on a miss;
\* a resolution that finds a match replaces the key's entry by the result
\* stamped with the current time and touches no other key.
C2_CacheExpiry ==
    [][\A p \in Procs :
          /\ (req[p].pc = "idle" /\ req'[p].pc # "idle") =>
                LET entry == realTimeCache[req'[p].key]
                    fresh == entry.has /\ now - entry.timestamp < 3600000
                IN  /\ req'[p].servedFromCache <=> fresh
                    /\ fresh => /\ req'[p].pc = "done"
                                /\ req'[p].result = entry.result
                                /\ ~req'[p].calledResolver
                                /\ ~req'[p].calledRefresh
                                /\ ~req'[p].ranked
                                /\ realTimeCache' = realTimeCache
                    /\ ~fresh => req'[p].calledResolver
          /\ (/\ req[p].pc # "done"
              /\ req'[p].pc = "done"
              /\ ~req'[p].servedFromCache
              /\ ~IsEmptyResult(req'[p].result)) =>
                realTimeCache' =
                    [realTimeCache EXCEPT ![req'[p].key] =
                        [has |-> TRUE, result |-> req'[p].result, timestamp |-> now]]
      ]_vars

\* a resolution that found the key's entry exactly 3,600,000 ms old, resolved
\* again and replaced the entry
C2_Witness ==
    \E p \in Procs :
        /\ req[p].pc = "done"
        /\ req[p].cachedAge = 3600000
        /\ ~req[p].servedFromCache
        /\ req[p].ranked
        /\ realTimeCache[req[p].key] =
              [has |-> TRUE, result |-> req[p].result, timestamp |-> now]

\* The episode records of a list with season s and episode e
EpisodesOf(videos, s, e) ==
    { i \in 1..Len(videos) : /\ ToNumber(videos[i].season) = Rat(s, 1)
                             /\ ToNumber(videos[i].episode) = Rat(e, 1) }

FinishedEpisodeSearch(p) ==
    /\ req[p].pc = "done"
    /\ req[p].isEpisode
    /\ req[p].ranked
    /\ req[p].season.t = "num"
    /\ req[p].episode.t = "num"

BothSeriesScenario(p) ==
    /\ FinishedEpisodeSearch(p)
    /\ req[p].id = "tt2:1:1"
    /\ Len(req[p].scanned) = 2
    /\ \A i \in 1..2 : Len(req[p].scanned[i]) > 0

\* C6: for an episode request (season s, episode e) the candidates built by
\* searchEpisodeByImdbId before truncation are exactly the episode records
\* with Number(season) = s and Number(episode) = e of every series whose title
\* score is at least the threshold, not of the best series alone, each with
\* its parent series' name and score; when two series clear the threshold and
\* only one of them holds a single S1E1 record, exactly one candidate is
\* returned.
C6_EpisodeCandidates ==
    \A p \in Procs :
        FinishedEpisodeSearch(p) =>
            LET r == req[p]
                clearing == { j \in 1..Len(r.library) :
                                AtLeastThreshold(fuzzyMatch(r.omdbData.title,
                                                            itemTitleOf(r.library[j]))) }
                scannedAt(j) == { i \in 1..Len(r.scanned) : r.allMatches[i].item = r.library[j] }
                expected ==
                    UNION { UNION { { [episode |-> r.scanned[i][k],
                                       seriesName |-> r.library[j].name,
                                       seriesScore |-> r.allMatches[i].finalScore] :
                                      k \in EpisodesOf(r.scanned[i], r.season.num, r.episode.num) } :
                                    i \in scannedAt(j) } :
                            j \in clearing }
                candidates ==
                    { [episode |-> r.allEpisodeMatches[i].episode,
                       seriesName |-> r.allEpisodeMatches[i].seriesName,
                       seriesScore |-> r.allEpisodeMatches[i].seriesScore] :
                      i \in 1..Len(r.allEpisodeMatches) }
            IN  /\ Len(r.scanned) = Len(r.allMatches)
                /\ \A j \in clearing : Cardinality(scannedAt(j)) = 1
                /\ Len(r.allMatches) = Cardinality(clearing)
                /\ candidates = expected
                /\ Len(r.allEpisodeMatches) = Cardinality(expected)
                /\ BothSeriesScenario(p) =>
                      /\ Len(r.allEpisodeMatches) = 1
                      /\ r.result.kind = "list"
                      /\ Len(r.result.list) = 1
                      /\ Len(r.streams) = 1

\* the request for S1E1 has scanned the episode lists of both matching
\* series and returned the one candidate
C6_Witness ==
    \E p \in Procs :
        /\ BothSeriesScenario(p)
        /\ Len(req[p].allMatches) = 2
        /\ Len(req[p].result.list) = 1

\* the search is past getOfficialTitle, which gave no canonical title
NoCanonicalTitle(p) ==
    /\ req[p].pc \notin {"idle", "awaitOmdb"}
    /\ req[p].calledResolver
    /\ ~req[p].omdbData.ok

AdjustmentHundredths(y, itemYear) ==
    IF itemYear.t # "num" THEN 0
    ELSE IF itemYear.num = y THEN 10
    ELSE LET d == IF itemYear.num > y THEN itemYear.num - y ELSE y - itemYear.num
         IN  IF d < 5 THEN -d ELSE -5

IsHundredths(r, h) == r.d > 0 /\ r.n * 100 = h * r.d

\* C11: in findAllMatches called with an integer targetYear, every retained
\* entry has year adjustment +0.10 when its title year equals targetYear,
\* -min(0.05, 0.01 * d) when both years are present and differ by d, 0 when
\* the entry has no year, and finalScore = titleScore + adjustment, unclamped.
C11_YearAdjustment ==
    (rankOut.op = "findAllMatches" /\ rankYear.t = "num") =>
        \A i \in 1..Len(rankOut.matches) :
            LET m == rankOut.matches[i]
                h == AdjustmentHundredths(rankYear.num, m.year)
            IN  /\ IsHundredths(m.yearBonus, h)
                /\ m.finalScore.d > 0
                /\ m.titleScore.d > 0
                /\ m.finalScore.n * m.titleScore.d * 100 =
                      (m.titleScore.n * 100 + h * m.titleScore.d) * m.finalScore.d

\* a ranking with one entry 3 years off (-0.03) and one entry 7 years off
\* (capped at -0.05), the latter's final score below its title score
C11_Witness ==
    /\ rankOut.op = "findAllMatches"
    /\ rankYear.t = "num"
    /\ \E i \in 1..Len(rankOut.matches) :
          /\ rankOut.matches[i].year = JsNum(rankYear.num - 3)
          /\ rankOut.matches[i].yearBonus = Rat(-3, 100)
    /\ \E i \in 1..Len(rankOut.matches) :
          /\ rankOut.matches[i].year = JsNum(rankYear.num - 7)
          /\ rankOut.matches[i].yearBonus = Rat(-5, 100)
          /\ rankOut.matches[i].finalScore = Rat(95, 100)

C12_YearBonusInRange ==
    \A p \in Procs :
        req[p].ranked =>
            \A i \in 1..Len(req[p].allMatches) :
                LET m == req[p].allMatches[i]
                IN  /\ ~IsNaN(m.yearBonus)
                    /\ RatGe(m.yearBonus, Rat(-5, 100))
                    /\ RatGe(Rat(10, 100), m.yearBonus)
                    /\ ~IsNaN(m.finalScore)
                    /\ (m.year.t = "num" /\ m.year = parseInt(req[p].omdbData.year))
                           => m.yearBonus = Rat(10, 100)

\* The series id that ensureSeriesInfo is called with for the k-th series
\* match of a request
ScannedSeriesId(r, k) == seriesIdOf(r.allMatches[k].item)

\* C14: once ensureSeriesInfo has stored a value for a series id in
\* seriesInfoCache, every later ensureSeriesInfo call for that id returns the
\* stored value without invoking the provider's fetchSeriesInfo, even when
\* the stored episode list is empty. Over every step: a request invokes
\* fetchSeriesInfo only for an id that has no stored value at that moment,
\* and every call answered within the step for an id stored before the step
\* returns the stored list.
C14_SeriesInfoCached ==
    [][\A p \in Procs :
          /\ req'[p].fetches > req[p].fetches =>
                /\ req'[p].pc = "awaitSeriesInfo"
                /\ req'[p].fetches = req[p].fetches + 1
                /\ ~seriesInfoCache'[ScannedSeriesId(req'[p], req'[p].idx)].has
                /\ ~seriesInfoCache[ScannedSeriesId(req'[p], req'[p].idx)].has
          /\ Len(req'[p].scanned) > Len(req[p].scanned) =>
                \A k \in (Len(req[p].scanned) + 1)..Len(req'[p].scanned) :
                    LET seriesId == ScannedSeriesId(req'[p], k)
                        awaited == /\ req[p].pc = "awaitSeriesInfo"
                                   /\ seriesId = ScannedSeriesId(req[p], req[p].idx)
                    IN  (seriesId # "" /\ ~awaited /\ seriesInfoCache[seriesId].has) =>
                            /\ req'[p].scanned[k] = seriesInfoCache[seriesId].videos
                            /\ seriesInfoCache'[seriesId] = seriesInfoCache[seriesId]
    ]_vars

\* an episode search has scanned two series without any fetchSeriesInfo
\* call, the first of them from a stored empty list
C14_Witness ==
    \E p \in Procs :
        /\ req[p].pc = "done"
        /\ req[p].isEpisode
        /\ req[p].fetches = 0
        /\ Len(req[p].scanned) = 2
        /\ seriesInfoCache[ScannedSeriesId(req[p], 1)] = [has |-> TRUE, videos |-> << >>]
        /\ req[p].scanned[1] = << >>
        /\ Len(ProviderSeriesInfo(ScannedSeriesId(req[p], 1))) > 0

\* The library partition a request is ranked against
PartitionOf(r, theMovies, theSeries) == IF r.isEpisode THEN theSeries ELSE theMovies

IsParsedToken(v, token) ==
    IF token # "" /\ Head(token) \in DigitCharSet
    THEN /\ v.t = "num"
         /\ token = "1" => v.num = 1
         /\ token \in { "02", "2x" } => v.num = 2
    ELSE v = JsNaN

\* parseImdbRequest(id): with exactly 3 tokens isEpisode = true and imdbId =
\* first token; with any other token count isEpisode = false and imdbId = id
ParsedByTokenCount ==
    LET out == parseOut.result
    IN  IF Len(parseTokens) = 3
        THEN out.isEpisode /\ out.imdbId = parseTokens[1]
        ELSE ~out.isEpisode /\ out.imdbId = parseId

SortedCandidates(r) ==
    IF r.isEpisode THEN sortEpisodes(r.allEpisodeMatches) ELSE r.allMatches

ReturnedList(r) == IF r.result.kind = "list" THEN r.result.list ELSE << >>

\* C16: searchMovieByImdbId returns (and caches) at most 5 candidates and
\* searchEpisodeByImdbId at most 10, and in both cases the returned list is
\* the leading prefix of the fully sorted candidate list, in the same order.
C16_ResultCap ==
    [][\A p \in DOMAIN req :
          (req'[p].pc = "done" /\ req[p].pc # "done" /\ req'[p].ranked) =>
              LET r == req'[p]
                  full == SortedCandidates(r)
                  list == ReturnedList(r)
                  cap == IF r.isEpisode THEN 10 ELSE 5
              IN  /\ Len(list) <= cap
                  /\ Len(list) = (IF Len(full) < cap THEN Len(full) ELSE cap)
                  /\ \A i \in 1..Len(list) : list[i] = full[i]
                  /\ Len(list) > 0 =>
                        /\ realTimeCache'[r.key].has
                        /\ realTimeCache'[r.key].result = r.result
    ]_vars

\* an episode search with 12 pooled candidates of two series has returned
\* 10 of them, after a movie search with 7 candidates that stored 5
C16_Witness ==
    \E p \in DOMAIN req :
        /\ req[p].pc = "done"
        /\ req[p].isEpisode
        /\ Len(req[p].allEpisodeMatches) = 12
        /\ Len(ReturnedList(req[p])) = 10
        /\ realTimeCache[req[p].key].result = req[p].result
        /\ Len(movies) = 7
        /\ realTimeCache["tt4"].has
        /\ Len(realTimeCache["tt4"].result.list) = 5

\* ------------------------------------------------------------------------
\* Properties of concurrent requests (SpecPair)
\* ------------------------------------------------------------------------

\* Request p ends a resolution of its own (a cache miss) in this step
Completes(p) ==
    /\ req'[p].pc = "done"
    /\ req[p].pc # "done"
    /\ ~req'[p].servedFromCache

\* Two finished resolutions of one key, both cache misses, made with the same
\* resolver answer over the same library
SameMiss(a, b) ==
    /\ a.pc = "done" /\ b.pc = "done"
    /\ a.key = b.key
    /\ ~a.servedFromCache /\ ~b.servedFromCache
    /\ a.omdbData = b.omdbData
    /\ a.library = b.library
    /\ a.scanned = b.scanned

Entries(library) == { library[i] : i \in 1..Len(library) }

\* C18: all candidates returned by one findAllMatches call refer to entries
\* of one single library state, whatever refreshes are interleaved with the
\* requests: at the step of the ranking pass the candidates are exactly the
\* entries of the partition of that step that reach the threshold.
C18_ConsistentView ==
    [][\A p \in DOMAIN req :
          (req'[p].ranked /\ ~req[p].ranked) =>
              LET rn == req'[p]
                  partition == PartitionOf(rn, movies', series')
                  found == { rn.allMatches[i].item : i \in 1..Len(rn.allMatches) }
              IN  /\ rn.library = partition
                  /\ found \subseteq Entries(partition)
                  /\ found = { item \in Entries(partition) :
                                  RatGe(fuzzyMatch(rn.omdbData.title, itemTitleOf(item)),
                                        matchingThreshold) }
    ]_vars

\* two requests in progress together were ranked on two different library
\* states, each with candidates of its own library only
C18_Witness ==
    /\ req[1].ranked /\ req[2].ranked
    /\ req[2].overlap
    /\ req[1].library = ProviderMovies
    /\ req[2].library = ProviderMoviesLater
    /\ Len(req[1].allMatches) = 2
    /\ Len(req[2].allMatches) = 2
    /\ \E i \in 1..2 : req[1].allMatches[i].item \notin Entries(req[2].library)
    /\ \E i \in 1..2 : req[2].allMatches[i].item \notin Entries(req[1].library)

\* ------------------------------------------------------------------------
\* Properties of createAddon (SpecBuild)
\* ------------------------------------------------------------------------

\* Two configs give the same cache key: they agree on the ten fields of the
\* minimal object, enableEpg and xtreamUseM3U as booleans, includeSeries as
\* "not false"
SameCacheKey(a, b) ==
    /\ a.provider = b.provider
    /\ a.m3uUrl = b.m3uUrl
    /\ a.epgUrl = b.epgUrl
    /\ (a.enableEpg = "true") = (b.enableEpg = "true")
    /\ a.xtreamUrl = b.xtreamUrl
    /\ a.xtreamUsername = b.xtreamUsername
    /\ (a.xtreamUseM3U = "true") = (b.xtreamUseM3U = "true")
    /\ a.xtreamOutput = b.xtreamOutput
    /\ a.epgOffsetHours = b.epgOffsetHours
    /\ (a.includeSeries = "false") = (b.includeSeries = "false")

\* C20: with caching enabled, for any interleaving of createAddon calls whose
\* configs produce the same cache key, the build body runs at most once and
\* every such call resolves to the same interface object.
C20_InterfaceCaching ==
    /\ \A i \in 1..Len(builds) : \A j \in 1..Len(builds) :
          SameCacheKey(builds[i].config, builds[j].config) => i = j
    /\ \A c \in DOMAIN callers : \A d \in DOMAIN callers :
          (/\ callers[c].pc # "idle"
           /\ callers[d].pc # "idle"
           /\ SameCacheKey(callers[c].config, callers[d].config)) =>
              /\ callers[c].promise = callers[d].promise
              /\ (callers[c].pc = "resolved" /\ callers[d].pc = "resolved") =>
                    /\ callers[c].iface = callers[d].iface
                    /\ callers[c].iface = builds[callers[c].promise].iface

\* two calls whose configs differ in includeSeries (not given, true), in the
\* password and in the instance id have resolved to the interface of the one
\* build
C20_Witness ==
    /\ Len(builds) = 1
    /\ callers[1].pc = "resolved"
    /\ callers[2].pc = "resolved"
    /\ callers[1].config.includeSeries = "undefined"
    /\ callers[2].config.includeSeries = "true"
    /\ callers[1].config.xtreamPassword # callers[2].config.xtreamPassword
    /\ callers[1].config.instanceId # callers[2].config.instanceId
    /\ callers[1].iface = callers[2].iface
    /\ callers[1].iface = 1

\* ------------------------------------------------------------------------
\* Properties of the resolver cache (Spec)
\* ------------------------------------------------------------------------

SameAccountOtherPassword(a, b) ==
    /\ a.provider = b.provider
    /\ a.m3uUrl = b.m3uUrl
    /\ a.epgUrl = b.epgUrl
    /\ a.xtreamUrl = b.xtreamUrl
    /\ a.xtreamUsername = b.xtreamUsername
    /\ a.xtreamPassword # b.xtreamPassword

\* C30: two createAddon calls whose configs have the same provider, URLs and
\* xtreamUsername but different xtreamPassword never resolve to the same
\* cached addon instance.
C30_PasswordSeparatesInstances ==
    \A c \in DOMAIN callers : \A d \in DOMAIN callers :
        (/\ callers[c].pc = "resolved"
         /\ callers[d].pc = "resolved"
         /\ SameAccountOtherPassword(callers[c].config, callers[d].config)) =>
            callers[c].iface # callers[d].iface

\* ------------------------------------------------------------------------
\* Stream lookups
\* ------------------------------------------------------------------------

\* The series id named by an episode id iptv_series_<n>:<season>:<episode>
RequestedSeries(id) == stripSeriesPrefix(split(id, ":")[1])

\* C26: getStream for an id iptv_series_<n>:<season>:<episode> answers only
\* with the url of a record that the cache holds under series n, never with
\* that of another cached series
C26_OnlyRequestedSeries ==
    (streamOut.called /\ isSeriesEpisodeId(streamOut.id) /\ streamOut.result.kind = "stream") =>
        /\ mapHas(streamOut.cache, RequestedSeries(streamOut.id))
        /\ \E v \in SeqRange(mapGet(streamOut.cache, RequestedSeries(streamOut.id)).videos) :
               v.url = streamOut.result.url

\* C27: when buildSeriesMeta has answered, getStream called next with any
\* video id of the answer gives a stream with the url of the record that
\* video was built from
C27_MetaStreamRoundTrip ==
    [][\A p \in MetaProcs :
          (metaReq'[p] # metaReq[p] /\ metaReq'[p].pc = "done") =>
              \A v \in SeqRange(metaReq'[p].videos) :
                  getStream(infoEntries', channels' \o movies', v.id) = StreamOf(v._url)]_vars

\* What C28 says of one step of a buildSeriesMeta call: ensureSeriesInfo
\* always answers; a fetch that threw, or a provider without fetchSeriesInfo,
\* leaves the empty structure stored and returned; a call that finds an entry
\* returns it without fetching and without writing
EnsureSeriesInfoStep(p) ==
    LET m == metaReq[p]
        mn == metaReq'[p]
    IN  /\ (m.pc = "awaitSeriesInfo" /\ mn # m) =>
               /\ mn.pc = "done"
               /\ mn.outcome \in {"ok", "throw"}
               /\ mapHas(infoEntries', m.seriesId)
               /\ mapGet(infoEntries', m.seriesId).videos = mn.info
        /\ (mn # m /\ mn.outcome \in {"throw", "nofunction"}) =>
               /\ mn.pc = "done"
               /\ mn.info = << >>
               /\ mapHas(infoEntries', mn.seriesId)
               /\ mapGet(infoEntries', mn.seriesId) = emptyInfo(mn.seriesId)
        /\ (m.pc # "awaitSeriesInfo" /\ mn # m /\ mapHas(infoEntries, mn.seriesId)) =>
               /\ mn.pc = "done"
               /\ ~mn.fetched
               /\ mn.info = mapGet(infoEntries, mn.seriesId).videos
               /\ infoEntries' = infoEntries

\* C28 as stated: ensureSeriesInfo never throws, a failed fetch is stored as
\* the empty structure, and from then on the entry of that series id stays
\* the empty structure, returned without another fetch
C28_Original ==
    [][/\ \A p \in MetaProcs : EnsureSeriesInfoStep(p)
       /\ \A i \in DOMAIN infoEntries :
              infoEntries[i].failed =>
                  i \in DOMAIN infoEntries' /\ infoEntries'[i] = infoEntries[i]]_vars

\* C28 amended: the stored empty structure is returned without another
\* fetch, and it is replaced only by the success of a fetch for the same
\* series id that was already in flight when it was stored
C28_Amended ==
    [][/\ \A p \in MetaProcs : EnsureSeriesInfoStep(p)
       /\ \A i \in DOMAIN infoEntries :
              infoEntries[i].failed =>
                  /\ i \in DOMAIN infoEntries'
                  /\ infoEntries'[i].seriesId = infoEntries[i].seriesId
                  /\ \/ infoEntries'[i] = infoEntries[i]
                     \/ \E q \in MetaProcs :
                            /\ metaReq[q].pc = "awaitSeriesInfo"
                            /\ metaReq[q].seriesId = infoEntries[i].seriesId
                            /\ metaReq'[q].outcome = "ok"]_vars

\* A call answered from the empty structure that a failed fetch left behind,
\* with a provider that could have been asked again
C28_Witness ==
    \E p \in MetaProcs :
        /\ hasFetchSeriesInfo
        /\ metaReq[p].pc = "done"
        /\ metaReq[p].outcome = "cached"
        /\ ~metaReq[p].fetched
        /\ mapHas(infoEntries, metaReq[p].seriesId)
        /\ mapGet(infoEntries, metaReq[p].seriesId) = emptyInfo(metaReq[p].seriesId)
        /\ metaReq[p].info = << >>

\* ------------------------------------------------------------------------
\* The refresh throttle
\* ------------------------------------------------------------------------

\* the last update succeeded less than updateInterval ago
UpdatedRecently == lastUpdate # 0 /\ now - lastUpdate < updateInterval

BeforeOrTied(a, b) == CompareRanked(matchKey(a), matchKey(b)) <= 0

\* C22: the comparator of findAllMatches is transitive on the candidates of a
\* call: a before-or-tied-with b and b before-or-tied-with c give a
\* before-or-tied-with c
C22_ComparatorTransitive ==
    (rankOut.called /\ rankOut.op = "findAllMatches") =>
        \A a, b, c \in SeqRange(rankOut.matches) :
            (BeforeOrTied(a, b) /\ BeforeOrTied(b, c)) => BeforeOrTied(a, c)

\* C24: in the list findAllMatches returns no candidate's final score exceeds
\* that of the first candidate by more than 0.05
C24_BestFirst ==
    (rankOut.called /\ rankOut.op = "findAllMatches") =>
        \A i \in DOMAIN rankOut.matches :
            ~RatGt(RatSub(rankOut.matches[i].finalScore, rankOut.matches[1].finalScore),
                   toleranceBand)

\* ------------------------------------------------------------------------
\* Titles that normalize to nothing
\* ------------------------------------------------------------------------

\* The tokens of a normalized title: its maximal runs of non-whitespace
\* characters, of any length
RECURSIVE TokensFrom(_, _)
TokensFrom(s, i) ==
    IF i > Len(s) THEN { }
    ELSE IF IsSpaceChar(Char(s, i)) THEN TokensFrom(s, i + 1)
         ELSE { SubSeq(s, i, TokenEnd(s, i)) } \cup TokensFrom(s, TokenEnd(s, i) + 1)

TokensOf(s) == TokensFrom(s, 1)

\* C25: fuzzyMatch(a, b) at or above the threshold for two different titles
\* implies that their normalized forms share a token, so a title that
\* normalizes to the empty string never reaches the threshold against a
\* different title
C25_ThresholdNeedsSharedToken ==
    (textOut.op = "fuzzyMatch" /\ titleA # titleB /\ RatGe(textOut.r1, matchingThreshold)) =>
        TokensOf(normalizeTitle(titleA)) \cap TokensOf(normalizeTitle(titleB)) # { }

\* ------------------------------------------------------------------------
\* Quality and source tiers
\* ------------------------------------------------------------------------

\* the lower-cased title contains one of the given substrings
HasAny(title, subs) == \E sub \in subs : includes(toLowerCase(title), sub)

\* The tier and label of the first row whose substrings occur in the title;
\* a row is << substrings, tier, label >>
RECURSIVE FirstRow(_, _, _)
FirstRow(title, rows, fallback) ==
    IF Len(rows) = 0 THEN fallback
    ELSE IF HasAny(title, rows[1][1]) THEN << rows[1][2], rows[1][3] >>
    ELSE FirstRow(title, Tail(rows), fallback)

QualityRows ==
    << << {"4k", "2160p", "uhd"}, 8, "4K" >>,
       << {"1080p", "fhd"}, 6, "1080p" >>,
       << {"720p", "hd"}, 4, "720p" >>,
       << {"480p", "sd"}, 2, "480p" >> >>

SourceRows ==
    << << {"bluray", "blu-ray"}, 10, "BluRay" >>,
       << {"remux"}, 9, "Remux" >>,
       << {"web-dl", "webdl"}, 8, "WEB-DL" >>,
       << {"webrip"}, 6, "WEBRip" >>,
       << {"hdtv"}, 4, "HDTV" >>,
       << {"dvdrip"}, 3, "DVDRip" >> >>

\* C23: extractQuality and extractSource give the tier of the first row, in
\* the fixed priority order, of which the lower-cased raw title contains a
\* substring, else (3, "HD") and (5, "Digital"); the quality tier is one of
\* 0, 2, 3, 4, 6, 8 and the source tier one of 0, 3, 4, 5, 6, 8, 9, 10
C23_TierTables ==
    /\ (textOut.op = "extractQuality" /\ titleA # "") =>
           << textOut.r1, textOut.s1 >> =
               LET row == FirstRow(titleA, QualityRows, << 3, "HD" >>)
               IN  << Rat(row[1], 1), row[2] >>
    /\ (textOut.op = "extractSource" /\ titleA # "") =>
           << textOut.r1, textOut.s1 >> =
               LET row == FirstRow(titleA, SourceRows, << 5, "Digital" >>)
               IN  << Rat(row[1], 1), row[2] >>
    /\ textOut.op = "extractQuality" =>
           textOut.r1 \in { Rat(k, 1) : k \in {0, 2, 3, 4, 6, 8} }
    /\ textOut.op = "extractSource" =>
           textOut.r1 \in { Rat(k, 1) : k \in {0, 3, 4, 5, 6, 8, 9, 10} }

\* a title naming both a BluRay and a Remux source: the BluRay row wins
C23_Witness ==
    /\ textOut.op = "extractSource"
    /\ HasAny(titleA, {"remux"})
    /\ HasAny(titleA, {"bluray", "blu-ray"})
    /\ textOut.r1 = Rat(10, 1)
    /\ textOut.s1 = "BluRay"

====
